---- MODULE Spec2Model ----
(***************************************************************************)
(* Model of the NGB binary decoding core: table splitting (BinaryParser), *)
(* stream-2 / stream-3 column assembly (DataStreamProcessor), the parse    *)
(* pipeline (NGBParser.parse) and metadata extraction (MetadataExtractor). *)
(*                                                                         *)
(* Bytes are small naturals 0..MaxByte; a byte buffer is a sequence of     *)
(* bytes (1-based here, 0-based in the source: position p of the source is *)
(* index p + 1 of the sequence).                                           *)
(***************************************************************************)
EXTENDS Integers, Sequences, FiniteSets, TLC

VARIABLES
    \* --- table splitting ---
    data,          \* the stream byte buffer handed to the splitter
    tables,        \* what BinaryParser.split_tables returned for data
    streamTables,  \* what DataStreamProcessor's own split gave for data
    spc,           \* "idle" before the call, "done" after it
    \* --- stream-2 / stream-3 processing (DataStreamProcessor) ---
    phase,         \* position in NGBParser.parse: "p1", "p2", "s2" (in the
                   \* loop of process_stream_2), "p3", "s3", "ret", "done",
                   \* "failed" (an exception left parse); "off" elsewhere
    nproc,         \* tables consumed so far (both streams)
    output,        \* the local buffer `output`
    df,            \* the frame `output_polars`: a set of <<name, values>>
    title,         \* the local `title` (NoTitle is Python's None)
    last,          \* the table consumed by the latest loop iteration
                   \* (its tags, not its identifier or array)
    ev,            \* what the latest iteration did (its log line)
    \* --- NGBParser.parse ---
    container,     \* the entry names of the archive
    readLog,       \* the entries opened and read so far
    metadata,      \* "unset" ({}), or "extracted" (from stream 1)
    perr,          \* the exception that left parse, or "none"
    presult,       \* "returned" once parse has returned (metadata, table)
    \* --- MetadataExtractor.extract_metadata ---
    s1tables,      \* the tables of stream 1 handed to extract_metadata
    mpc,           \* "idle"; "pyngb" / "pynetzsch" once that package's
                   \* extract_metadata has returned
    meta,          \* the returned metadata map (key -> value or Absent)
    cruSrc,        \* the occurrence reported as crucible_mass (0: none)
    refSrc,        \* the occurrence reported as reference_crucible_mass
    \* --- BinaryParser, DataTypeRegistry, extract_field: single calls ---
    handlers,      \* DataTypeRegistry._handlers
    op,            \* "idle" before the call; the function called, after it
    arg,           \* the arguments of the call
    res,           \* what the call returned, or the exception it raised
    \* --- objects that live across calls ---
    config,        \* PatternConfig of a parser: column_map, metadata_patterns
    compiled,      \* MetadataExtractor._compiled_meta (its field names)
    vr,            \* a ValidationResult: its four lists
    calls          \* how often each add_* method of vr was called

splitVars == <<data, tables, streamTables, spc>>
streamVars == <<phase, nproc, output, df, title, last, ev,
                container, readLog, metadata, perr, presult>>

metaVars == <<s1tables, mpc, meta, cruSrc, refSrc>>

binVars == <<handlers, op, arg, res>>

objVars == <<config, compiled, vr, calls>>

vars == <<splitVars, streamVars, metaVars, binVars, objVars>>

----------------------------------------------------------------------------
(* Bounds of the model *)

MaxByte == 2      \* bytes are 0..MaxByte
MaxBuf == 7       \* longest byte buffer

Byte == 0..MaxByte

RECURSIVE SeqsUpTo(_, _)
SeqsUpTo(S, n) ==
    IF n = 0 THEN {<<>>}
    ELSE LET shorter == SeqsUpTo(S, n - 1)
         IN shorter \cup {Append(s, x) : s \in {t \in shorter : Len(t) = n - 1}, x \in S}

Buffers == SeqsUpTo(Byte, MaxBuf)

----------------------------------------------------------------------------
(* Python sequence primitives used by the source *)

Min(a, b) == IF a < b THEN a ELSE b
Max(a, b) == IF a > b THEN a ELSE b

\* Python's normalisation of a slice index against a sequence of length n:
\* a negative index counts from the end, and the result is clamped to 0..n.
PyIndex(i, n) == IF i < 0 THEN Max(i + n, 0) ELSE Min(i, n)

\* s[i:j] with 0-based i, j (either may be negative).
PySlice(s, i, j) ==
    LET lo == PyIndex(i, Len(s))
        hi == PyIndex(j, Len(s))
    IN IF hi <= lo THEN <<>> ELSE SubSeq(s, lo + 1, hi)

\* s[i:] (the stop of the slice is None)
PySliceFrom(s, i) == PySlice(s, i, Len(s))

\* TRUE iff pat occurs in s at 0-based position p
MatchAt(s, pat, p) ==
    /\ p >= 0
    /\ p + Len(pat) <= Len(s)
    /\ \A k \in 1..Len(pat) : s[p + k] = pat[k]

----------------------------------------------------------------------------
(* BinaryMarkers.  The separator of the model is three bytes long and,     *)
(* like the format's 20-byte separator (which begins and ends with 00),    *)
(* can overlap itself.                                                     *)

TABLE_SEPARATOR == <<0, 1, 0>>

\* the fixed back-offset of a table boundary before its separator
BackOffset == 2

\* re.finditer: the start positions (0-based) of the non-overlapping
\* occurrences of pat in s, scanning left to right from position `from`.
RECURSIVE FindIter(_, _, _)
FindIter(s, pat, from) ==
    IF from + Len(pat) > Len(s) THEN <<>>
    ELSE IF MatchAt(s, pat, from)
         THEN <<from>> \o FindIter(s, pat, from + Len(pat))
         ELSE FindIter(s, pat, from + 1)

\* indices = [m.start() - 2 for m in pattern.finditer(data)]
BoundaryIndices(s) ==
    LET occ == FindIter(s, TABLE_SEPARATOR, 0)
    IN [k \in 1..Len(occ) |-> occ[k] - BackOffset]

\* every slice runs to the end of the buffer
SliceAllToEnd(s, idx) == [k \in 1..Len(idx) |-> PySliceFrom(s, idx[k])]

\* [data[i:j] for i, j in zip_longest(start, end)]: consecutive boundaries
\* pair up, the last boundary pairs with None.
SliceByIndices(s, idx) ==
    [k \in 1..Len(idx) |->
        IF k < Len(idx) THEN PySlice(s, idx[k], idx[k + 1])
        ELSE PySliceFrom(s, idx[k])]

\* DataStreamProcessor.process_stream_2 / process_stream_3: the split they
\* perform themselves (no special case for a buffer without separator).
StreamSplit(s) == SliceByIndices(s, BoundaryIndices(s))

\* a split that forgets the no-separator case
SplitTablesNoFallback(s) == SliceByIndices(s, BoundaryIndices(s))

\* BinaryParser.split_tables
SplitTables(s) ==
    LET idx == BoundaryIndices(s)
    IN IF Len(idx) = 0 THEN <<s>> ELSE SliceByIndices(s, idx)

\* the splitter is not part of the run
\* no single call is part of the run
BinIdle ==
    /\ handlers = <<>>
    /\ op = "off"
    /\ arg = <<>>
    /\ res = <<>>

\* no parser and no ValidationResult is part of the run
ObjIdle ==
    /\ config = <<>>
    /\ compiled = {}
    /\ vr = <<>>
    /\ calls = <<>>

SplitIdle ==
    /\ data = <<>>
    /\ tables = <<>>
    /\ streamTables = <<>>
    /\ spc = "off"

----------------------------------------------------------------------------
(* DataStreamProcessor: the tables of a measurement stream.               *)
(*                                                                         *)
(* A table is described by what the two loops read of it:                  *)
(*   id    table[0:1].hex(), the column identifier                         *)
(*   b1    table[1:2]: "17" (header tag), "75" (data tag) or "00" (other)  *)
(*   sig3  table[22:25] == 80 22 2b, the stream-3 header signature         *)
(*   arr   for a data table, how the decoding of its bulk array ends:      *)
(*           "nostart"    START_DATA is not in the table                   *)
(*           "noend"      END_DATA is not found after the payload start    *)
(*           "nohandler"  no registered handler accepts the type tag       *)
(*                        (parse_data raises NGBDataTypeError)             *)
(*           "badlen"     the payload is no whole number of elements       *)
(*                        (numpy.frombuffer raises ValueError)             *)
(*           "ok"         the handler returns the values vals              *)
(***************************************************************************)

MaxTables == 4    \* tables of stream 2 and stream 3 together
MaxArr == 3       \* longest decoded array of one data table

NoTitle == "None"
ColIds == {"8d", "ff"}

\* PatternConfig.column_map, and col_map.get(title, title)
ColName(id) == IF id = "8d" THEN "time" ELSE id

\* The decoded arrays of the model: n consecutive values, starting at a
\* value that differs from one column identifier to the other.
Ramp(a, n) == [k \in 1..n |-> a + k - 1]
ArrStart(id) == IF id = "8d" THEN 1 ELSE 5
Arrays(id) == {Ramp(ArrStart(id), n) : n \in 0..MaxArr}

NoArr == [st |-> "none", vals |-> <<>>]
Decodes(id) ==
    {[st |-> f, vals |-> <<>>] : f \in {"nostart", "noend", "nohandler", "badlen"}}
    \cup {[st |-> "ok", vals |-> a] : a \in Arrays(id)}

\* what is remembered of a consumed table
Seen(t) ==
    [b1 |-> t.b1, sig3 |-> t.sig3,
     id |-> IF t.b1 = "17" \/ t.sig3 THEN t.id ELSE ""]
NoTable == [b1 |-> "", sig3 |-> FALSE, id |-> ""]

StreamTables ==
    UNION {{[id |-> i, b1 |-> "75", sig3 |-> g, arr |-> d] :
                g \in BOOLEAN, d \in Decodes(i)} : i \in ColIds}
    \cup {[id |-> i, b1 |-> b, sig3 |-> g, arr |-> NoArr] :
        i \in ColIds, b \in {"17", "00"}, g \in BOOLEAN}

\* The tables process_stream_2 tells apart: it never reads table[22:25], and
\* reads table[0:1] of header tables only.
Stream2Tables ==
    {t \in StreamTables : ~t.sig3 /\ (t.b1 # "17" => t.id = "8d")}

\* The tables process_stream_3 tells apart: of table[1:2] it asks only
\* whether it is the data tag, and it reads table[0:1] of header tables only.
Stream3Tables ==
    {t \in StreamTables : t.b1 # "17" /\ (~t.sig3 => t.id = "8d")}

(* polars *)
EmptyFrame == {}
ColNames(f) == {c[1] : c \in f}
Column(f, name) == (CHOOSE c \in f : c[1] = name)[2]
Height(f) == IF f = {} THEN 0 ELSE Len((CHOOSE c \in f : TRUE)[2])

\* pl.Series(name=title, ...): a name of None becomes the empty name
SeriesName(t) == IF t = NoTitle THEN "" ELSE t

\* DataFrame.with_columns(pl.Series(name, values)) raises ShapeError when the
\* frame has columns and the series is not as long as they are (a series is
\* not broadcast)
ShapeMismatch(f, values) == f # {} /\ Len(values) # Height(f)

\* DataFrame.with_columns on a fitting series: the column is added, or
\* replaces the column of the same name
WithColumns(f, name, values) ==
    {c \in f : c[1] # name} \cup {<<name, values>>}

\* a commit that does not look at the shape
CommitUnchecked(f, t, values) == WithColumns(f, SeriesName(t), values)

\* try: output_polars = output_polars.with_columns(pl.Series(name=title,
\* values=output)) except ShapeError: (logged or passed)
Commit(f, t, values) ==
    IF ShapeMismatch(f, values) THEN f
    ELSE WithColumns(f, SeriesName(t), values)

\* The locals of a loop: [output, df, title, ev, raised]
Locals(o, f, t, e, r) ==
    [output |-> o, df |-> f, title |-> t, ev |-> e, raised |-> r]

\* the "data" branch shared by both loops, up to output.extend(parsed_data)
\* (streams.py 67-89 and 117-139): "skip" is a `continue` after a logged
\* decoding failure, "extend" means the array was appended
DataBranch(st, t) ==
    CASE t.arr.st = "nostart" -> [st EXCEPT !.ev = "skip"]
      [] t.arr.st = "noend" -> [st EXCEPT !.ev = "skip"]
      [] t.arr.st = "nohandler" -> [st EXCEPT !.ev = "skip"]
      [] t.arr.st = "badlen" -> [st EXCEPT !.ev = "valueerror", !.raised = TRUE]
      [] OTHER -> [st EXCEPT !.output = st.output \o t.arr.vals, !.ev = "extend"]

\* a header branch that commits under the title pending before the header
Stream2HeaderPending(st, t) ==
    Locals(<<>>,
           IF Len(st.output) > 1 THEN Commit(st.df, st.title, st.output)
           ELSE st.df,
           ColName(t.id),
           IF Len(st.output) > 1
           THEN (IF ShapeMismatch(st.df, st.output) THEN "shape" ELSE "commit")
           ELSE "header",
           FALSE)

\* the header branch of process_stream_2 (streams.py 55-65)
Stream2Header(st, t) ==
    LET newTitle == ColName(t.id)
    IN Locals(<<>>,
              IF Len(st.output) > 1 THEN Commit(st.df, newTitle, st.output)
              ELSE st.df,
              newTitle,
              IF Len(st.output) > 1
              THEN (IF ShapeMismatch(st.df, st.output) THEN "shape" ELSE "commit")
              ELSE "header",
              FALSE)

\* one iteration of the loop of process_stream_2 (streams.py 54-89)
Stream2Step(st, t) ==
    LET h == IF t.b1 = "17" THEN Stream2Header(st, t) ELSE [st EXCEPT !.ev = "none"]
    IN IF t.b1 = "75" THEN DataBranch(h, t) ELSE h

\* an end of process_stream_2 that commits what is still buffered
Stream2FinishCommit(st) ==
    IF Len(st.output) > 1 THEN Commit(st.df, st.title, st.output) ELSE st.df

\* the end of process_stream_2: return output_polars (streams.py 91)
Stream2Finish(st) == st.df

\* the header branch of process_stream_3 (streams.py 112-115)
Stream3Header(st, t) == [st EXCEPT !.title = ColName(t.id), !.output = <<>>, !.ev = "header"]

\* a stream-3 loop that commits like the stream-2 loop, at a header only
Stream3StepAtHeader(st, t) ==
    LET c == IF t.sig3 /\ Len(st.output) > 1
             THEN [st EXCEPT !.df = Commit(st.df, st.title, st.output)]
             ELSE st
        h == IF t.sig3 THEN Stream3Header(c, t) ELSE [c EXCEPT !.ev = "none"]
    IN IF t.b1 # "75" THEN h ELSE DataBranch(h, t)

\* one iteration of the loop of process_stream_3 (streams.py 111-148)
Stream3Step(st, t) ==
    LET h == IF t.sig3 THEN Stream3Header(st, t) ELSE [st EXCEPT !.ev = "none"]
        d == DataBranch(h, t)
    IN IF t.b1 # "75" THEN h
       ELSE IF d.ev # "extend" THEN d
       ELSE [d EXCEPT !.df = Commit(d.df, d.title, d.output),
                      !.ev = IF ShapeMismatch(d.df, d.output) THEN "shape" ELSE "commit"]

Now == Locals(output, df, title, ev, FALSE)

\* the parse pipeline is not part of the run
StreamIdle ==
    /\ phase = "off"
    /\ nproc = 0
    /\ output = <<>>
    /\ df = EmptyFrame
    /\ title = NoTitle
    /\ last = NoTable
    /\ ev = "none"
    /\ container = {}
    /\ readLog = {}
    /\ metadata = "unset"
    /\ perr = "none"
    /\ presult = "none"

----------------------------------------------------------------------------
(* MetadataExtractor: the tables of stream 1.                              *)
(*                                                                         *)
(* A table is described by what extract_metadata reads of it:              *)
(*   ms     the matches of the compiled field patterns in the table, in    *)
(*          byte order; a match is the field it belongs to, the result of  *)
(*          parse_value on its (data_type, value) groups, and, for a       *)
(*          numeric crucible_mass match, the signature found in the 64     *)
(*          bytes before it and the first numeric field value met walking  *)
(*          backwards through the 256 bytes before it                      *)
(*   names  the MFC channel names present in the table (UTF-16LE)          *)
(*   mfc    the range of an MFC range table in tenths (0: no range table)  *)
(*   gas    the gas of a gas-context table (0: no gas context)             *)
(*   ctl    the value found for each control signature (0: not found)      *)
(* No match of a field pattern spans a table boundary, so the matches of   *)
(* the joined tables are the matches of the tables, in table order.        *)
(* Numbers stand for floats in tenths where the source has decimals.       *)
(***************************************************************************)
MaxItems == 3       \* matches and table boundaries of a scalar-field input
MaxOcc == 2         \* matches and table boundaries of a crucible input
MaxMfcTables == 5   \* tables of an MFC input
MaxCtlTables == 4   \* tables of a control-parameter input

\* parse_value returns None when nothing decodes the value
None == [ty |-> "none", v |-> 0]
\* a key that is not in the metadata dict
Absent == [ty |-> "absent", v |-> 0]

Value(ty, v) == [ty |-> ty, v |-> v]

\* isinstance(value, (int, float))
IsNum(x) == x.ty \in {"int", "float"}

\* float(value)
ToFloat(x) == [ty |-> "float", v |-> x.v]

\* datetime.fromtimestamp(value, tz=timezone.utc).isoformat()
IsoFormat(x) == [ty |-> "iso", v |-> x.v]

\* the keys of _compiled_meta, in the order of the dict
MetaFields == <<"instrument", "sample_mass", "date_performed", "crucible_mass">>

ChannelNames == <<"Purge 1", "Purge 2", "Protective">>

\* field_name.lower().replace(" ", "_")
FieldKey(name) ==
    CASE name = "Purge 1" -> "purge_1"
      [] name = "Purge 2" -> "purge_2"
      [] name = "Protective" -> "protective"

GasField(key) == key \o "_mfc_gas"
RangeField(key) == key \o "_mfc_range"

\* control_signatures
ControlParams == <<"xp", "tn", "tv">>

MfcKeys ==
    {GasField(FieldKey(ChannelNames[n])) : n \in 1..3}
        \cup {RangeField(FieldKey(ChannelNames[n])) : n \in 1..3}

ControlKeys ==
    {"furnace_" \o ControlParams[n] : n \in 1..3}
        \cup {"sample_" \o ControlParams[n] : n \in 1..3}

MetaKeys ==
    {MetaFields[n] : n \in 1..Len(MetaFields)}
        \cup {"reference_crucible_mass", "reference_mass"}
        \cup MfcKeys \cup ControlKeys

\* metadata: FileMetadata = {}
EmptyMeta == [k \in MetaKeys |-> Absent]

NoCtl == [xp |-> 0, tn |-> 0, tv |-> 0]

Match(f, val, sig, walk) == [f |-> f, val |-> val, sig |-> sig, walk |-> walk]

Table(ms, names, mfc, gas, ctl) ==
    [ms |-> ms, names |-> names, mfc |-> mfc, gas |-> gas, ctl |-> ctl]

\* the first match only of the pattern of field f
FindFirst(table, f) ==
    LET ms == SelectSeq(table.ms, LAMBDA m : m.f = f)
    IN  IF ms = <<>> THEN <<>> ELSE <<ms[1]>>

\* pattern.findall(table) for the pattern of field f
FindAll(table, f) == SelectSeq(table.ms, LAMBDA m : m.f = f)

Put(md, k, x) == [md EXCEPT ![k] = x]

\* if key not in metadata: metadata[key] = x   (also dict.setdefault)
SetDefault(md, k, x) == IF md[k] = Absent THEN Put(md, k, x) ELSE md

\* one match of the scalar pass; st is (metadata, crucible_masses)
ScanMatch(st, f, m) ==
    LET value == IF f = "date_performed" /\ m.val.ty = "int"
                 THEN IsoFormat(m.val) ELSE m.val
    IN  IF m.val = None THEN st
        ELSE IF f = "crucible_mass" /\ IsNum(value)
             THEN [st EXCEPT !.crucible_masses = Append(@, value.v)]
        ELSE IF f = "sample_mass" /\ IsNum(value)
             THEN [st EXCEPT !.metadata = SetDefault(@, f, ToFloat(value))]
        ELSE [st EXCEPT !.metadata = SetDefault(@, f, value)]

RECURSIVE ScanMatches(_, _, _)
ScanMatches(st, f, ms) ==
    IF ms = <<>> THEN st
    ELSE ScanMatches(ScanMatch(st, f, Head(ms)), f, Tail(ms))

RECURSIVE ScanFields(_, _, _)
ScanFields(st, table, n) ==
    IF n > Len(MetaFields) THEN st
    ELSE ScanFields(ScanMatches(st, MetaFields[n], FindAll(table, MetaFields[n])),
                    table, n + 1)

\* the scalar pass over all tables
RECURSIVE ScanTables(_, _)
ScanTables(st, tabs) ==
    IF tabs = <<>> THEN st
    ELSE ScanTables(ScanFields(st, Head(tabs), 1), Tail(tabs))

\* b"".join(tables), as the matches it holds
RECURSIVE Combined(_)
Combined(tabs) ==
    IF tabs = <<>> THEN <<>> ELSE Head(tabs).ms \o Combined(Tail(tabs))

\* the numeric crucible_mass matches of the joined tables, by byte position
Occurrences(tabs) ==
    SelectSeq(Combined(tabs), LAMBDA m : m.f = "crucible_mass" /\ IsNum(m.val))

\* sorted(occ, key=byte_pos)[0], as an index into the occurrences
Earliest(S) == CHOOSE i \in S : \A j \in S : i <= j

\* every occurrence, whatever its value
AnyCandidates(occ) == DOMAIN occ

\* abs(occ["value"]) < 1e-12
ZeroCandidates(occ) == {i \in DOMAIN occ : occ[i].val.v = 0}

\* structural classification of the crucible masses
ClassifyCrucible(st, tabs) ==
    LET occ == Occurrences(tabs)
        sample_sig_occ == {i \in DOMAIN occ : occ[i].sig = "sample"}
        ref_sig_occ == {i \in DOMAIN occ : occ[i].sig = "ref"}
        zero_occ == ZeroCandidates(occ)
        md0 == st.metadata
        md1 == IF sample_sig_occ # {}
               THEN Put(md0, "crucible_mass", ToFloat(occ[Earliest(sample_sig_occ)].val))
               ELSE md0
        ref_occ == occ[Earliest(ref_sig_occ)]
        md2 == IF ref_sig_occ # {}
               THEN LET r == Put(md1, "reference_crucible_mass", ToFloat(ref_occ.val))
                    IN  IF IsNum(ref_occ.walk)
                        THEN SetDefault(r, "reference_mass", ToFloat(ref_occ.walk))
                        ELSE r
               ELSE md1
        sample_occ == occ[Earliest(sample_sig_occ)]
        md3 == IF sample_sig_occ # {} /\ IsNum(sample_occ.walk)
               THEN SetDefault(md2, "sample_mass", ToFloat(sample_occ.walk))
               ELSE md2
        zeroFallback == /\ md3["crucible_mass"] # Absent
                        /\ md3["reference_crucible_mass"] = Absent
                        /\ zero_occ # {}
        md4 == IF zeroFallback
               THEN Put(md3, "reference_crucible_mass", ToFloat(occ[Earliest(zero_occ)].val))
               ELSE md3
        earliestFallback == md4["crucible_mass"] = Absent /\ occ # <<>>
        md5 == IF earliestFallback
               THEN Put(md4, "crucible_mass", ToFloat(occ[1].val))
               ELSE md4
    IN  IF st.crucible_masses = <<>>
        THEN [metadata |-> md0, cruSrc |-> 0, refSrc |-> 0]
        ELSE [metadata |-> md5,
              cruSrc |-> IF sample_sig_occ # {} THEN Earliest(sample_sig_occ)
                         ELSE IF earliestFallback THEN 1 ELSE 0,
              refSrc |-> IF ref_sig_occ # {} THEN Earliest(ref_sig_occ)
                         ELSE IF zeroFallback THEN Earliest(zero_occ) ELSE 0]

\* enumerate(tables): the table indices in table order
Indices(tabs) == [i \in 1..Len(tabs) |-> i]

\* step 1: the channel names found in some table, in the order searched
FieldDefinitions(tabs) ==
    SelectSeq(ChannelNames, LAMBDA n : \E i \in DOMAIN tabs : n \in tabs[i].names)

\* the range tables, the last one first
RangeTablesLastFirst(tabs) ==
    LET rt == SelectSeq(Indices(tabs), LAMBDA i : tabs[i].mfc # 0)
    IN  [n \in 1..Len(rt) |-> rt[Len(rt) + 1 - n]]

\* step 2: the tables with the MFC signature and a known range value
RangeTables(tabs) == SelectSeq(Indices(tabs), LAMBDA i : tabs[i].mfc # 0)

\* steps 3 and 4: the nearest gas-context table before the range table
GasType(tabs, range_table) ==
    LET ctx == {c \in 1..(range_table - 1) : tabs[c].gas # 0}
    IN  IF ctx = {} THEN 0
        ELSE tabs[CHOOSE c \in ctx : \A d \in ctx : c >= d].gas

\* _extract_mfc_metadata
ExtractMfc(tabs, md) ==
    LET fd == FieldDefinitions(tabs)
        rt == RangeTables(tabs)
        paired == {n \in 1..Min(3, Len(rt)) :
                      n <= Len(fd) /\ GasType(tabs, rt[n]) # 0}
    IN  [k \in DOMAIN md |->
            IF \E n \in paired : k = GasField(FieldKey(fd[n]))
            THEN LET n == CHOOSE n \in paired : k = GasField(FieldKey(fd[n]))
                 IN  Value("str", GasType(tabs, rt[n]))
            ELSE IF \E n \in paired : k = RangeField(FieldKey(fd[n]))
            THEN LET n == CHOOSE n \in paired : k = RangeField(FieldKey(fd[n]))
                 IN  Value("float", tabs[rt[n]].mfc)
            ELSE md[k]]

\* a table in which at least one control signature has a value
AnyControlParam(t) == t.ctl.xp # 0 \/ t.ctl.tn # 0 \/ t.ctl.tv # 0

\* len(control_params_found) == 3
IsControlTable(t) == t.ctl.xp # 0 /\ t.ctl.tn # 0 /\ t.ctl.tv # 0

ControlTables(tabs) == SelectSeq(Indices(tabs), LAMBDA i : IsControlTable(tabs[i]))

\* _extract_control_parameters
ExtractControl(tabs, md) ==
    LET control_tables == ControlTables(tabs)
        furnace_params == tabs[control_tables[1]].ctl
        sample_params == tabs[control_tables[2]].ctl
    IN  IF Len(control_tables) >= 2
        THEN [k \in DOMAIN md |->
                IF \E n \in 1..3 : k = "furnace_" \o ControlParams[n]
                THEN LET n == CHOOSE n \in 1..3 : k = "furnace_" \o ControlParams[n]
                     IN  Value("float", furnace_params[ControlParams[n]])
                ELSE IF \E n \in 1..3 : k = "sample_" \o ControlParams[n]
                THEN LET n == CHOOSE n \in 1..3 : k = "sample_" \o ControlParams[n]
                     IN  Value("float", sample_params[ControlParams[n]])
                ELSE md[k]]
        ELSE md

\* pyngb MetadataExtractor.extract_metadata.  The temperature program and the
\* calibration constants are written under their own two keys, which no
\* other pass reads; they are left out of the map.
ExtractMetadata(tabs) ==
    LET scanned == ScanTables([metadata |-> EmptyMeta, crucible_masses |-> <<>>], tabs)
        withMfc == ExtractMfc(tabs, scanned.metadata)
        withControl == ExtractControl(tabs, withMfc)
    IN  ClassifyCrucible([scanned EXCEPT !.metadata = withControl], tabs)

\* pynetzsch MetadataExtractor.extract_field
ExtractField(table, f) ==
    LET matches == FindAll(table, f)
    IN  IF matches = <<>> THEN None ELSE matches[1].val

RECURSIVE LegacyFields(_, _, _)
LegacyFields(md, table, n) ==
    IF n > Len(MetaFields) THEN md
    ELSE LET f == MetaFields[n]
             value == ExtractField(table, f)
             shown == IF f = "date_performed" /\ value.ty = "int"
                      THEN IsoFormat(value) ELSE value
         IN  LegacyFields(IF value # None THEN Put(md, f, shown) ELSE md,
                          table, n + 1)

\* pynetzsch MetadataExtractor.extract_metadata
RECURSIVE LegacyExtractMetadata(_, _)
LegacyExtractMetadata(md, tabs) ==
    IF tabs = <<>> THEN md
    ELSE LegacyExtractMetadata(LegacyFields(md, Head(tabs), 1), Tail(tabs))

MetaIdle ==
    /\ s1tables = <<>>
    /\ mpc = "off"
    /\ meta = EmptyMeta
    /\ cruSrc = 0
    /\ refSrc = 0

----------------------------------------------------------------------------
(* NGBParser.parse: the pipeline over one container.  A container is the   *)
(* set of entry names of the ZIP archive (its namelist).                   *)

S1 == "Streams/stream_1.table"
S2 == "Streams/stream_2.table"
S3 == "Streams/stream_3.table"
Entries == {S1, S2, S3, "other"}

\* a parser that goes on without the metadata stream
Stream1NotRequired(c) == TRUE

\* if "Streams/stream_1.table" in available_streams (parser.py 124)
HasStream1(c) == S1 \in c

\* if "Streams/stream_2.table" in available_streams (parser.py 135)
HasStream2(c) == S2 \in c

\* if "Streams/stream_3.table" in z.namelist() (parser.py 141)
HasStream3(c) == S3 \in c

\* parse is called on an existing archive: metadata = {}, data_df =
\* pl.DataFrame() (parser.py 110-120)
ParseInit ==
    /\ container \in SUBSET Entries
    /\ phase = "p1"
    /\ nproc = 0
    /\ output = <<>>
    /\ df = EmptyFrame
    /\ title = NoTitle
    /\ last = NoTable
    /\ ev = "none"
    /\ readLog = {}
    /\ metadata = "unset"
    /\ perr = "none"
    /\ presult = "none"
    /\ SplitIdle
    /\ MetaIdle
    /\ BinIdle
    /\ ObjIdle

locals == <<nproc, output, df, title, last, ev>>

\* stream 1 is read, split and handed to extract_metadata (parser.py 124-128)
ReadStream1 ==
    /\ phase = "p1"
    /\ HasStream1(container)
    /\ readLog' = readLog \cup {S1}
    /\ metadata' = "extracted"
    /\ phase' = "p2"
    /\ UNCHANGED <<container, perr, presult, locals>>
    /\ UNCHANGED <<splitVars, metaVars, binVars, objVars>>

\* stream 1 is missing: NGBStreamNotFoundError leaves parse (parser.py
\* 129-132, logged and re-raised at 148-150)
RaiseStreamNotFound ==
    /\ phase = "p1"
    /\ ~HasStream1(container)
    /\ perr' = "NGBStreamNotFoundError"
    /\ phase' = "failed"
    /\ UNCHANGED <<container, readLog, metadata, presult, locals>>
    /\ UNCHANGED <<splitVars, metaVars, binVars, objVars>>

\* stream 2 is read and process_stream_2 entered: output = [], output_polars
\* = pl.DataFrame(), title = None (parser.py 135-138, streams.py 47-49)
EnterStream2 ==
    /\ phase = "p2"
    /\ HasStream2(container)
    /\ readLog' = readLog \cup {S2}
    /\ phase' = "s2"
    /\ output' = <<>>
    /\ df' = EmptyFrame
    /\ title' = NoTitle
    /\ UNCHANGED <<container, metadata, perr, presult, nproc, last, ev>>
    /\ UNCHANGED <<splitVars, metaVars, binVars, objVars>>

\* the container has no stream 2 (parser.py 135)
SkipStream2 ==
    /\ phase = "p2"
    /\ ~HasStream2(container)
    /\ phase' = "p3"
    /\ UNCHANGED <<container, readLog, metadata, perr, presult, locals>>
    /\ UNCHANGED <<splitVars, metaVars, binVars, objVars>>

\* one loop iteration is applied; an exception the loop does not catch
\* leaves parse
Apply(st, t, nextPhase) ==
    /\ phase' = IF st.raised THEN "failed" ELSE nextPhase
    /\ perr' = IF st.raised THEN "ValueError" ELSE perr
    /\ nproc' = nproc + 1
    /\ output' = st.output
    /\ df' = st.df
    /\ title' = st.title
    /\ ev' = st.ev
    /\ last' = Seen(t)
    /\ UNCHANGED <<container, readLog, metadata, presult>>
    /\ UNCHANGED <<splitVars, metaVars, binVars, objVars>>

\* the loop of process_stream_2 takes the next table of the stream
S2Table ==
    /\ phase = "s2"
    /\ nproc < MaxTables
    /\ \E t \in Stream2Tables : Apply(Stream2Step(Now, t), t, "s2")

\* process_stream_2 returns output_polars, which becomes data_df
\* (streams.py 91, parser.py 138)
S2Return ==
    /\ phase = "s2"
    /\ phase' = "p3"
    /\ df' = Stream2Finish(Now)
    /\ UNCHANGED <<container, readLog, metadata, perr, presult>>
    /\ UNCHANGED <<nproc, output, title, last, ev>>
    /\ UNCHANGED <<splitVars, metaVars, binVars, objVars>>

\* stream 3 is read and process_stream_3 entered with data_df (parser.py
\* 141-146, streams.py 104-106)
EnterStream3 ==
    /\ phase = "p3"
    /\ HasStream3(container)
    /\ readLog' = readLog \cup {S3}
    /\ phase' = "s3"
    /\ output' = <<>>
    /\ title' = NoTitle
    /\ last' = NoTable
    /\ ev' = "none"
    /\ UNCHANGED <<container, metadata, perr, presult, df, nproc>>
    /\ UNCHANGED <<splitVars, metaVars, binVars, objVars>>

\* the container has no stream 3 (parser.py 141)
SkipStream3 ==
    /\ phase = "p3"
    /\ ~HasStream3(container)
    /\ phase' = "ret"
    /\ UNCHANGED <<container, readLog, metadata, perr, presult, locals>>
    /\ UNCHANGED <<splitVars, metaVars, binVars, objVars>>

\* the loop of process_stream_3 takes the next table of the stream
S3Table ==
    /\ phase = "s3"
    /\ nproc < MaxTables
    /\ \E t \in Stream3Tables : Apply(Stream3Step(Now, t), t, "s3")

\* process_stream_3 returns output_polars, which becomes data_df
\* (streams.py 150, parser.py 144)
S3Return ==
    /\ phase = "s3"
    /\ phase' = "ret"
    /\ UNCHANGED <<container, readLog, metadata, perr, presult, locals>>
    /\ UNCHANGED <<splitVars, metaVars, binVars, objVars>>

\* return metadata, data_df.to_arrow() (parser.py 152)
ParseReturn ==
    /\ phase = "ret"
    /\ phase' = "done"
    /\ presult' = "returned"
    /\ UNCHANGED <<container, readLog, metadata, perr, locals>>
    /\ UNCHANGED <<splitVars, metaVars, binVars, objVars>>

ParseNext ==
    \/ ReadStream1 \/ RaiseStreamNotFound
    \/ EnterStream2 \/ SkipStream2 \/ S2Table \/ S2Return
    \/ EnterStream3 \/ SkipStream3 \/ S3Table \/ S3Return
    \/ ParseReturn

SpecParse == ParseInit /\ [][ParseNext]_vars

----------------------------------------------------------------------------
(* Claims about NGBParser.parse *)

\* C2: for a container without Streams/stream_1.table, parse fails with
\* NGBStreamNotFoundError, returns no metadata and no table, and never reads
\* or processes stream 2 or stream 3, whatever else the container holds.
C2_MissingStream1Fails ==
    (S1 \notin container) =>
        /\ phase \in {"p1", "failed"}
        /\ (phase = "failed" => perr = "NGBStreamNotFoundError")
        /\ readLog = {}
        /\ metadata = "unset"
        /\ df = EmptyFrame
        /\ nproc = 0
        /\ presult = "none"

C2_Witness ==
    /\ S1 \notin container
    /\ {S2, S3, "other"} \subseteq container
    /\ phase = "failed"
    /\ perr = "NGBStreamNotFoundError"

----------------------------------------------------------------------------
(* Claims about DataStreamProcessor *)

\* a header step of the stream-2 loop
S2HeaderStep == phase = "s2" /\ phase' = "s2" /\ nproc' = nproc + 1 /\ last'.b1 = "17"

\* C1 as stated: when stream-2 processing ends, data buffered after the last
\* header table (more than one element) is committed as that header's
\* column; in particular one header table (8d) followed by one data table of
\* 3 values returns the column "time" holding exactly those 3 values.
C1_LastBufferCommitted ==
    (/\ phase = "p3"
     /\ S2 \in readLog
     /\ title # NoTitle
     /\ Len(output) > 1
     /\ ~ShapeMismatch(df, output))
    => (title \in ColNames(df) /\ Column(df, title) = output)

\* C1, amended: stream-2 processing changes the output table only at a
\* header table that arrives while more than one element is buffered, and
\* then by adding the buffer as the column named by that header; the end of
\* processing commits nothing, so one header table followed by one data
\* table returns the empty table.
C1_CommitOnlyAtHeader ==
    /\ [][(phase = "s2" /\ df' # df)
            => /\ S2HeaderStep
               /\ Len(output) > 1
               /\ df' = WithColumns(df, ColName(last'.id), output)]_vars
    /\ []((/\ phase = "p3"
           /\ S2 \in readLog
           /\ nproc = 2
           /\ title # NoTitle
           /\ last.b1 = "75")
          => df = EmptyFrame)

\* header 8d, then a data table of 3 values, then the end of stream 2: the
\* 3 values are still buffered and the table is empty
C1_Witness ==
    /\ phase = "p3"
    /\ S2 \in readLog
    /\ nproc = 2
    /\ title = "time"
    /\ last.b1 = "75"
    /\ output = <<1, 2, 3>>
    /\ df = EmptyFrame

\* C9 as stated: when a stream-2 header table arrives and the buffer holds
\* more than one element, the buffer is committed under the pending title
\* (the title set by the header that preceded the buffered data, not the
\* title of the header that triggers the commit), and the buffer is emptied.
C9_CommitUnderPendingTitle ==
    [][(S2HeaderStep /\ Len(output) > 1 /\ title # NoTitle)
        => (df' = Commit(df, title, output) /\ output' = <<>>)]_vars

\* C9, amended: when a stream-2 header table arrives and the buffer holds
\* more than one element, the buffer is committed under the title of the
\* arriving header (the header that triggers the commit), unless its length
\* differs from the committed columns; the arriving title becomes the
\* pending one and the buffer is emptied.
C9_CommitUnderArrivingTitle ==
    [][(S2HeaderStep /\ Len(output) > 1)
        => /\ title' = ColName(last'.id)
           /\ df' = (IF ShapeMismatch(df, output) THEN df
                     ELSE WithColumns(df, title', output))
           /\ output' = <<>>]_vars

\* header 8d, data of the 8d channel, header ff: the data is the column "ff"
C9_Witness ==
    /\ phase = "s2"
    /\ nproc = 3
    /\ ev = "commit"
    /\ last.b1 = "17"
    /\ last.id = "ff"
    /\ title = "ff"
    /\ df = {<<"ff", <<1, 2>>>>}

\* every column of the frame has the same number of rows, and no name twice
UniformFrame ==
    \A c, d \in df : Len(c[2]) = Len(d[2]) /\ (c[1] = d[1] => c = d)

\* a step that tries to commit the array buf: a stream-2 header with more than
\* one buffered element, or a stream-3 data table whose array was decoded
S2Attempt == S2HeaderStep /\ Len(output) > 1
S3Attempt ==
    /\ phase = "s3" /\ phase' = "s3" /\ nproc' = nproc + 1
    /\ last'.b1 = "75" /\ ev' # "skip"

S3Base == IF last'.sig3 THEN <<>> ELSE output

C12_Stream3OnlyAfterStream2 ==
    (S3 \in readLog) => (S2 \in container)

\* C14: process_stream_2 and process_stream_3 never raise: a data table
\* whose array cannot be decoded is skipped and the loop goes on, so parse
\* never fails inside a stream loop.
C14_StreamsNeverRaise ==
    /\ perr # "ValueError"
    /\ phase = "failed" => readLog = {}

\* C28: in stream-3 processing no column is committed before a stream-3
\* header has set the pending title: a data table that arrives before any
\* header leaves the output table as it is.
C28_NoCommitBeforeHeader ==
    [][(phase = "s3" /\ phase' = "s3" /\ title' = NoTitle) => df' = df]_vars

----------------------------------------------------------------------------
(* Specification of the splitter: any buffer, then the two splits *)

SplitInit ==
    /\ data \in Buffers
    /\ tables = <<>>
    /\ streamTables = <<>>
    /\ spc = "idle"
    /\ StreamIdle
    /\ MetaIdle
    /\ BinIdle
    /\ ObjIdle

CallSplitTables ==
    /\ spc = "idle"
    /\ tables' = SplitTables(data)
    /\ streamTables' = StreamSplit(data)
    /\ spc' = "done"
    /\ UNCHANGED data
    /\ UNCHANGED <<streamVars, metaVars, binVars, objVars>>

SplitNext == CallSplitTables

SpecSplit == SplitInit /\ [][SplitNext]_vars

----------------------------------------------------------------------------
\* the separator occurs somewhere in s
HasSeparator(s) == \E p \in 0..Len(s) : MatchAt(s, TABLE_SEPARATOR, p)

\* C3: split_tables returns at least one table for every buffer, and exactly
\* the one-element list [B] when B holds no TABLE_SEPARATOR.
C3_AtLeastOneTable ==
    spc = "done" =>
        /\ Len(tables) >= 1
        /\ (~HasSeparator(data) => tables = <<data>>)

C3_Witness ==
    /\ spc = "done"
    /\ ~HasSeparator(data)
    /\ Len(data) = MaxBuf
    /\ tables = <<data>>

\* the bytes of s at source positions max(a, 0) .. b - 1
ByteRange(s, a, b) ==
    LET lo == Max(a, 0)
        hi == Min(b, Len(s))
    IN IF hi <= lo THEN <<>> ELSE SubSeq(s, lo + 1, hi)

\* C4: with k >= 1 separator occurrences at p1 < ... < pk, split_tables
\* returns exactly k tables, table i being the bytes from boundary p_i - 2 up
\* to boundary p_(i+1) - 2 and the last one running to the end of the buffer,
\* wherever the first separator starts (positions 0 and 1 included).
C4_TablesAreBoundaryRanges ==
    LET occ == FindIter(data, TABLE_SEPARATOR, 0)
        k == Len(occ)
    IN (spc = "done" /\ k >= 1) =>
        /\ Len(tables) = k
        /\ \A i \in 1..k :
              tables[i] = ByteRange(data, occ[i] - BackOffset,
                                    IF i < k THEN occ[i + 1] - BackOffset
                                    ELSE Len(data))

RECURSIVE TotalLen(_)
TotalLen(ts) == IF Len(ts) = 0 THEN 0 ELSE Len(Head(ts)) + TotalLen(Tail(ts))

\* C23: for every buffer, the lengths of the tables split_tables returns
\* sum to at most the length of the buffer, and every table is a bytes
\* value (a finite sequence of bytes).
C23_TotalLengthBounded ==
    spc = "done" =>
        /\ TotalLen(tables) <= Len(data)
        /\ \A i \in 1..Len(tables) :
              /\ DOMAIN tables[i] = 1..Len(tables[i])
              /\ \A k \in 1..Len(tables[i]) : tables[i][k] \in Byte

\* one separator at position 3: the byte in front of the boundary is
\* dropped and the rest is the one table
C23_Witness ==
    /\ spc = "done"
    /\ FindIter(data, TABLE_SEPARATOR, 0) = <<3>>
    /\ Len(tables) = 1
    /\ TotalLen(tables) = Len(data) - 1

\* C26: the table sequence process_stream_2 and process_stream_3 walk is
\* the sequence split_tables returns for the same bytes, for every input,
\* one without TABLE_SEPARATOR included.
C26_StreamSplitIsSplitTables ==
    spc = "done" => streamTables = tables

RECURSIVE Concat(_)
Concat(ts) == IF Len(ts) = 0 THEN <<>> ELSE Head(ts) \o Concat(Tail(ts))

\* C27: for every buffer with at least one TABLE_SEPARATOR, the tables of
\* split_tables joined in order are the buffer without the bytes before
\* the first boundary (first separator start minus 2, not below 0).
C27_TablesTileTheBuffer ==
    LET occ == FindIter(data, TABLE_SEPARATOR, 0)
    IN (spc = "done" /\ Len(occ) >= 1) =>
          Concat(tables) = ByteRange(data, occ[1] - BackOffset, Len(data))

----------------------------------------------------------------------------
(* Specification of metadata extraction: any stream-1 table list of one of *)
(* four input families, then one call of extract_metadata, of pyngb or of  *)
(* pynetzsch.                                                              *)
(***************************************************************************)
Boundary == Match("|", None, "none", None)

\* the tables of a sequence of matches and table boundaries
RECURSIVE Tabulate(_, _)
Tabulate(items, cur) ==
    IF items = <<>> THEN <<Table(cur, {}, 0, 0, NoCtl)>>
    ELSE IF Head(items) = Boundary
         THEN <<Table(cur, {}, 0, 0, NoCtl)>> \o Tabulate(Tail(items), <<>>)
         ELSE Tabulate(Tail(items), Append(cur, Head(items)))

ScalarValues == {None, Value("int", 1), Value("str", 3)}

ScalarMatches ==
    {Match(f, x, "none", None) :
        f \in {"instrument", "sample_mass"}, x \in ScalarValues}
      \cup {Match("date_performed", Value("int", 1), "none", None)}

ScalarInputs(tabs) ==
    \E items \in SeqsUpTo(ScalarMatches \cup {Boundary}, MaxItems) :
        tabs = Tabulate(items, <<>>)

CrucibleMatches ==
    {Match("crucible_mass", Value("float", v), sig, None) :
        v \in {0, 1}, sig \in {"none", "sample", "ref"}}
      \cup {Match("crucible_mass", Value("float", 1), sig, Value("float", 7)) :
                sig \in {"sample", "ref"}}
      \cup {Match("crucible_mass", Value("str", 3), "none", None),
            Match("sample_mass", Value("float", 2), "none", None)}

CrucibleInputs(tabs) ==
    \E items \in SeqsUpTo(CrucibleMatches \cup {Boundary}, MaxOcc) :
        tabs = Tabulate(items, <<>>)

\* (mfc, gas) of a table: unrelated, range 250.0, range 252.5, two gases
MfcKinds == {<<0, 0>>, <<2500, 0>>, <<2525, 0>>, <<0, 1>>, <<0, 2>>}

\* the channel names of a list: none, all three, or the first one missing
NameSets == {{}, {"Purge 2", "Protective"}, {"Purge 1", "Purge 2", "Protective"}}

MfcInputs(tabs) ==
    \E ks \in SeqsUpTo(MfcKinds, MaxMfcTables) \ {<<>>} :
        \E names \in NameSets :
            tabs = [i \in DOMAIN ks |->
                       Table(<<>>, IF i = 1 THEN names ELSE {},
                             ks[i][1], ks[i][2], NoCtl)]

CtlKinds ==
    {NoCtl,
     [xp |-> 40, tn |-> 0, tv |-> 0],
     [xp |-> 40, tn |-> 41, tv |-> 0],
     [xp |-> 40, tn |-> 41, tv |-> 42],
     [xp |-> 50, tn |-> 51, tv |-> 52]}

ControlInputs(tabs) ==
    \E cs \in SeqsUpTo(CtlKinds, MaxCtlTables) :
        tabs = [i \in DOMAIN cs |-> Table(<<>>, {}, 0, 0, cs[i])]

MetaInit ==
    /\ \/ ScalarInputs(s1tables)
       \/ CrucibleInputs(s1tables)
       \/ MfcInputs(s1tables)
       \/ ControlInputs(s1tables)
    /\ mpc = "idle"
    /\ meta = EmptyMeta
    /\ cruSrc = 0
    /\ refSrc = 0
    /\ SplitIdle
    /\ StreamIdle
    /\ BinIdle
    /\ ObjIdle

CallExtractMetadata ==
    /\ mpc = "idle"
    /\ LET r == ExtractMetadata(s1tables)
       IN  /\ meta' = r.metadata
           /\ cruSrc' = r.cruSrc
           /\ refSrc' = r.refSrc
    /\ mpc' = "pyngb"
    /\ UNCHANGED <<s1tables, splitVars, streamVars, binVars, objVars>>

CallLegacyExtractMetadata ==
    /\ mpc = "idle"
    /\ meta' = LegacyExtractMetadata(EmptyMeta, s1tables)
    /\ mpc' = "pynetzsch"
    /\ UNCHANGED <<s1tables, cruSrc, refSrc, splitVars, streamVars, binVars, objVars>>

MetaNext == CallExtractMetadata \/ CallLegacyExtractMetadata

SpecMeta == MetaInit /\ [][MetaNext]_vars

----------------------------------------------------------------------------
(* Claims about MetadataExtractor *)
(***************************************************************************)

\* C5: once extract_metadata has returned, no crucible-mass occurrence with
\* the sample signature in its 64-byte window is the occurrence reported as
\* reference_crucible_mass, and when such occurrences exist the one reported
\* as crucible_mass is one of them (the earliest), whatever its value.
C5_SampleSignedNeverReference ==
    mpc = "pyngb" =>
        LET occ == Occurrences(s1tables)
            signed == {i \in DOMAIN occ : occ[i].sig = "sample"}
        IN  /\ refSrc \notin signed
            /\ signed # {} => cruSrc \in signed /\ \A j \in signed : cruSrc <= j

\* the n-th table of the list that holds an MFC range, 0 when there is none
NthRangeTable(tabs, n) ==
    LET is == {i \in DOMAIN tabs :
                  tabs[i].mfc # 0
                  /\ Cardinality({j \in 1..(i - 1) : tabs[j].mfc # 0}) = n - 1}
    IN  IF is = {} THEN 0 ELSE CHOOSE i \in is : TRUE

\* the gas of the nearest gas-context table before table i, 0 when none
GasBefore(tabs, i) ==
    LET ctx == {c \in 1..(i - 1) : tabs[c].gas # 0}
    IN  IF ctx = {} THEN 0
        ELSE tabs[CHOOSE c \in ctx : \A d \in ctx : d <= c].gas

\* C6 as stated: with three channel names and three range entries found,
\* the n-th channel is reported with the n-th range, whatever else the list
\* holds.
C6_StrictOrdinal ==
    mpc = "pyngb" =>
        LET fd == FieldDefinitions(s1tables)
        IN  (Len(fd) = 3
             /\ NthRangeTable(s1tables, 3) # 0
             /\ NthRangeTable(s1tables, 4) = 0)
            => \A n \in 1..3 :
                  meta[RangeField(FieldKey(fd[n]))]
                      = Value("float", s1tables[NthRangeTable(s1tables, n)].mfc)

\* C6, amended: the n-th channel name found (n <= 3) is reported with the
\* range of the n-th range table and the gas of the nearest gas-context
\* table before that range table, provided such a gas-context table exists;
\* a channel whose range table has no gas-context table before it, or that
\* has no n-th range table, is reported with neither field.
C6_OrdinalWhenGasKnown ==
    mpc = "pyngb" =>
        LET fd == FieldDefinitions(s1tables)
        IN  \A n \in 1..Len(fd) :
                LET key == FieldKey(fd[n])
                    rt == NthRangeTable(s1tables, n)
                IN  IF rt # 0 /\ GasBefore(s1tables, rt) # 0
                    THEN /\ meta[RangeField(key)] = Value("float", s1tables[rt].mfc)
                         /\ meta[GasField(key)] = Value("str", GasBefore(s1tables, rt))
                    ELSE /\ meta[RangeField(key)] = Absent
                         /\ meta[GasField(key)] = Absent

\* three names, the ranges 250.0, 252.5, 250.0 in that order with an
\* unrelated table between them, a gas context before all of them
C6_Witness ==
    /\ mpc = "pyngb"
    /\ Len(FieldDefinitions(s1tables)) = 3
    /\ Len(s1tables) = 5
    /\ s1tables[1].gas # 0
    /\ s1tables[2].mfc = 2500
    /\ s1tables[3].mfc = 2525
    /\ s1tables[4].mfc = 0 /\ s1tables[4].gas = 0
    /\ s1tables[5].mfc = 2500
    /\ meta["purge_1_mfc_range"] = Value("float", 2500)
    /\ meta["purge_2_mfc_range"] = Value("float", 2525)
    /\ meta["protective_mfc_range"] = Value("float", 2500)

\* the tables in which all three control parameters have a value
FullControl(tabs) ==
    {i \in DOMAIN tabs : \A n \in 1..3 : tabs[i].ctl[ControlParams[n]] # 0}

\* the k-th smallest element of a set of indices
Kth(S, k) == CHOOSE i \in S : Cardinality({j \in S : j < i}) = k - 1

ControlReported(prefix, t) ==
    \A n \in 1..3 :
        meta[prefix \o ControlParams[n]] = Value("float", t.ctl[ControlParams[n]])

ControlAbsent(prefix) ==
    \A n \in 1..3 : meta[prefix \o ControlParams[n]] = Absent

\* C7 as stated: the first table with all three parameters produces the
\* furnace fields, the second one the sample fields.
C7_FirstIsFurnace ==
    mpc = "pyngb" =>
        LET full == FullControl(s1tables)
        IN  /\ Cardinality(full) >= 1
                => ControlReported("furnace_", s1tables[Kth(full, 1)])
            /\ Cardinality(full) >= 2
                => ControlReported("sample_", s1tables[Kth(full, 2)])

\* C7, amended: when at least two tables yield all three parameters, the
\* first of them produces furnace_xp/tn/tv and the second sample_xp/tn/tv;
\* with fewer than two such tables no control field is reported; a table
\* yielding fewer than three parameters is never attributed.
C7_TwoControlTables ==
    mpc = "pyngb" =>
        LET full == FullControl(s1tables)
        IN  IF Cardinality(full) >= 2
            THEN /\ ControlReported("furnace_", s1tables[Kth(full, 1)])
                 /\ ControlReported("sample_", s1tables[Kth(full, 2)])
            ELSE ControlAbsent("furnace_") /\ ControlAbsent("sample_")

\* a table with two parameters only, then two control tables of different
\* values: the partial table is passed over
C7_Witness ==
    /\ mpc = "pyngb"
    /\ Len(s1tables) = 3
    /\ s1tables[1].ctl = [xp |-> 40, tn |-> 41, tv |-> 0]
    /\ s1tables[2].ctl = [xp |-> 50, tn |-> 51, tv |-> 52]
    /\ s1tables[3].ctl = [xp |-> 40, tn |-> 41, tv |-> 42]
    /\ meta["furnace_xp"] = Value("float", 50)
    /\ meta["sample_tv"] = Value("float", 42)

\* the decoded values of the matches of field f, in table and match order
Decoded(tabs, f) ==
    SelectSeq(Combined(tabs), LAMBDA m : m.f = f /\ m.val # None)

\* C8: once extract_metadata (of either package) has returned, every scalar
\* field other than crucible_mass that has a decoded match is reported with
\* the value of its first decoded match in table and match order.
C8_FirstDecodedWins ==
    mpc \in {"pyngb", "pynetzsch"} =>
        \A f \in {"instrument", "sample_mass", "date_performed"} :
            LET ds == Decoded(s1tables, f)
            IN  ds # <<>> => meta[f] # Absent /\ meta[f].v = ds[1].val.v

RefSigned(occ) == {i \in DOMAIN occ : occ[i].sig = "ref"}
ZeroValued(occ) == {i \in DOMAIN occ : occ[i].val.v = 0}

\* crucible_mass is in the map before the zero-value fallback is tried
CrucibleKnown(tabs) ==
    \/ \E i \in DOMAIN Occurrences(tabs) : Occurrences(tabs)[i].sig = "sample"
    \/ \E i \in DOMAIN Combined(tabs) :
          LET m == Combined(tabs)[i]
          IN  m.f = "crucible_mass" /\ m.val # None /\ ~IsNum(m.val)

-----------------------------------------------------------------------------
(* DataType tags and the handlers of binary/handlers.py.  A tag is the     *)
(* byte string of DataType.<NAME>.value; a handler is the record of its    *)
(* class name and of the tags its can_handle accepts.                      *)

INT32 == <<3>>
FLOAT32 == <<4>>
FLOAT64 == <<5>>
\* DataType.STRING (STRING is a reserved word)
STRING_ == <<31>>

\* the result of a call: what it returned, or the exception it raised;
\* `by` is the position in _handlers of the handler that produced it
Returned(by, v) == [st |-> "ok", by |-> by, v |-> v]
Raised(exc) == [st |-> exc, by |-> 0, v |-> <<>>]

\* np.frombuffer(data, dtype): the elements of `size` bytes each, in
\* order, kept as their bytes; ValueError when the buffer size is not a
\* multiple of the element size
RECURSIVE Elements(_, _)
Elements(bytes, size) ==
    IF Len(bytes) = 0 THEN <<>>
    ELSE <<SubSeq(bytes, 1, size)>> \o Elements(SubSeq(bytes, size + 1, Len(bytes)), size)

FromBuffer(bytes, size) ==
    IF Len(bytes) % size # 0 THEN Raised("ValueError")
    ELSE Returned(0, Elements(bytes, size))

Float64Handler == [name |-> "Float64Handler", accepts |-> {FLOAT64}]
Float32Handler == [name |-> "Float32Handler", accepts |-> {FLOAT32}]

\* handler.can_handle(data_type)
CanHandle(handler, data_type) == data_type \in handler.accepts

\* handler.parse_data(data); a handler of another class returns a list
\* of its own making
HandlerParseData(handler, bytes) ==
    IF handler.name = "Float64Handler" THEN FromBuffer(bytes, 8)
    ELSE IF handler.name = "Float32Handler" THEN FromBuffer(bytes, 4)
    ELSE Returned(0, <<>>)

\* DataTypeRegistry.__init__ / _register_default_handlers
DefaultHandlers == <<Float64Handler, Float32Handler>>

\* the last handler of the list that accepts the tag
ParseDataLastWins(hs, data_type, bytes) ==
    LET ok == {i \in 1..Len(hs) : CanHandle(hs[i], data_type)}
    IN IF ok = {} THEN Raised("NGBDataTypeError")
       ELSE LET i == CHOOSE k \in ok : \A j \in ok : j <= k
                r == HandlerParseData(hs[i], bytes)
            IN IF r.st = "ok" THEN Returned(i, r.v) ELSE r

\* DataTypeRegistry.parse_data: the loop over _handlers from position i
RECURSIVE ParseDataFrom(_, _, _, _)
ParseDataFrom(hs, i, data_type, bytes) ==
    IF i > Len(hs) THEN Raised("NGBDataTypeError")
    ELSE IF CanHandle(hs[i], data_type)
         THEN LET r == HandlerParseData(hs[i], bytes)
              IN IF r.st = "ok" THEN Returned(i, r.v) ELSE r
         ELSE ParseDataFrom(hs, i + 1, data_type, bytes)

ParseData(hs, data_type, bytes) == ParseDataFrom(hs, 1, data_type, bytes)

-----------------------------------------------------------------------------
(* DataTypeRegistry: register calls followed by one parse_data call.       *)

MaxHandlers == 4

RegistryTags == {INT32, FLOAT32, FLOAT64}

\* handlers of user classes: any non-empty set of accepted tags
CustomHandlers ==
    {[name |-> n, accepts |-> a] :
        n \in {"CustomA", "CustomB"}, a \in (SUBSET RegistryTags) \ {{}}}

Zeros(n) == [i \in 1..n |-> 0]

\* payloads: empty, one Float32 element, one Float64 element, and a size
\* that is a multiple of neither element size
RegistryPayloads == {Zeros(0), Zeros(3), Zeros(4), Zeros(8)}

RegistryInit ==
    /\ handlers = DefaultHandlers
    /\ op = "idle"
    /\ arg = <<>>
    /\ res = <<>>
    /\ SplitIdle
    /\ StreamIdle
    /\ MetaIdle
    /\ ObjIdle

Register(handler) ==
    /\ op = "idle"
    /\ Len(handlers) < MaxHandlers
    /\ handlers' = Append(handlers, handler)
    /\ UNCHANGED <<op, arg, res, splitVars, streamVars, metaVars, objVars>>

CallParseData(data_type, bytes) ==
    /\ op = "idle"
    /\ op' = "parse_data"
    /\ arg' = <<data_type, bytes>>
    /\ res' = ParseData(handlers, data_type, bytes)
    /\ UNCHANGED <<handlers, splitVars, streamVars, metaVars, objVars>>

RegistryNext ==
    \/ \E h \in CustomHandlers : Register(h)
    \/ \E t \in RegistryTags, b \in RegistryPayloads : CallParseData(t, b)

SpecRegistry == RegistryInit /\ [][RegistryNext]_vars

\* C15: parse_data uses the first handler in registration order whose
\* can_handle accepts the tag: no handler registered before the one used
\* accepts the tag (so a handler registered later than an accepting one,
\* the defaults included, is never used), and a tag that no handler
\* accepts raises NGBDataTypeError.
C15_FirstRegisteredWins ==
    op = "parse_data" =>
        LET tag == arg[1]
            ok == {i \in 1..Len(handlers) : CanHandle(handlers[i], tag)}
        IN /\ ok = {} <=> res.st = "NGBDataTypeError"
           /\ res.st = "ok" => /\ res.by \in ok
                               /\ \A j \in ok : res.by <= j
           /\ res.st = "ValueError" =>
                  \E i \in ok : /\ \A j \in ok : i <= j
                                /\ handlers[i].name \in {"Float64Handler", "Float32Handler"}

\* a custom handler registered after the defaults accepts FLOAT64 and one
\* Float64 element was still decoded by the default handler
C15_Witness ==
    /\ op = "parse_data"
    /\ Len(handlers) = 3
    /\ CanHandle(handlers[3], FLOAT64)
    /\ arg[1] = FLOAT64
    /\ res.st = "ok"
    /\ res.by = 1
    /\ res.v = <<Zeros(8)>>


-----------------------------------------------------------------------------
(* BinaryParser.extract_data_array.                                        *)

START_DATA == <<160, 1>>

\* the end marker of a bulk array, two bytes long in the model
END_DATA == <<1, 0>>

\* the payload starts right behind the marker
MarkerLenOffset == Len(START_DATA)

\* start_idx += 6
PayloadOffset == 6

\* bytes.find(pat): the first position of pat, -1 when there is none
Find(s, pat) ==
    LET ps == {p \in 0..(Len(s) - Len(pat)) : MatchAt(s, pat, p)}
    IN IF ps = {} THEN -1 ELSE CHOOSE p \in ps : \A q \in ps : p <= q

ExtractDataArray(hs, table, data_type) ==
    LET start_idx == Find(table, START_DATA)
    IN IF start_idx = -1 THEN Returned(0, <<>>)
       ELSE LET data_bytes == PySliceFrom(table, start_idx + PayloadOffset)
                end_idx == Find(data_bytes, END_DATA)
            IN IF end_idx = -1 THEN Returned(0, <<>>)
               ELSE LET r == ParseData(hs, data_type, PySlice(data_bytes, 0, end_idx))
                    IN IF r.st = "ok" THEN Returned(0, r.v) ELSE Returned(0, <<>>)

MaxTokens == 5

\* the pieces the tables of the model are made of: single bytes, the two
\* markers and a four-byte word
Tokens == {<<0>>, <<1>>, START_DATA, END_DATA, <<0, 0, 0, 2>>}

RECURSIVE Flatten(_)
Flatten(ss) == IF Len(ss) = 0 THEN <<>> ELSE Head(ss) \o Flatten(Tail(ss))

ArrayTables == {Flatten(ts) : ts \in SeqsUpTo(Tokens, MaxTokens)}

ArrayInit ==
    /\ handlers = DefaultHandlers
    /\ op = "idle"
    /\ \E t \in ArrayTables, dt \in RegistryTags : arg = <<t, dt>>
    /\ res = <<>>
    /\ SplitIdle
    /\ StreamIdle
    /\ MetaIdle
    /\ ObjIdle

CallExtractDataArray ==
    /\ op = "idle"
    /\ op' = "extract_data_array"
    /\ res' = ExtractDataArray(handlers, arg[1], arg[2])
    /\ UNCHANGED <<handlers, arg, splitVars, streamVars, metaVars, objVars>>

ArrayNext == CallExtractDataArray

SpecArray == ArrayInit /\ [][ArrayNext]_vars

\* the position (0-based) of the payload of a table: 6 bytes after the
\* start of the first START_DATA
PayloadAt(table) == Find(table, START_DATA) + 6

\* the first END_DATA at or after the payload start, -1 when there is none
EndAt(table) ==
    LET ps == {p \in PayloadAt(table)..(Len(table) - Len(END_DATA)) : MatchAt(table, END_DATA, p)}
    IN IF ps = {} THEN -1 ELSE CHOOSE p \in ps : \A q \in ps : p <= q

NoPayload(table, data_type) ==
    \/ Find(table, START_DATA) = -1
    \/ EndAt(table) = -1
    \/ \A i \in 1..Len(handlers) : ~CanHandle(handlers[i], data_type)

Payload(table) == SubSeq(table, PayloadAt(table) + 1, EndAt(table))

ElementSize(data_type) == IF data_type = FLOAT64 THEN 8 ELSE 4

-----------------------------------------------------------------------------
(* BinaryParser.parse_value.  An integer is its value; a float is kept as  *)
(* the fields of its IEEE 754 bit pattern; a str is the sequence of its    *)
(* code points.                                                            *)

\* struct.unpack(">i", value): the most significant byte first
UnpackInt32BigEndian(value) ==
    IF Len(value) # 4 THEN Value("struct.error", 0)
    ELSE Value("int", value[4] + value[3] * 256 + value[2] * 65536
                      + (IF value[1] < 128 THEN value[1] ELSE value[1] - 256) * 16777216)

\* struct.unpack("<i", value)[0]: four bytes, least significant first,
\* two's complement
UnpackInt32(value) ==
    IF Len(value) # 4 THEN Value("struct.error", 0)
    ELSE Value("int", value[1] + value[2] * 256 + value[3] * 65536
                      + (IF value[4] < 128 THEN value[4] ELSE value[4] - 256) * 16777216)

\* struct.unpack("<f", value)[0]: sign, 8 exponent bits, 23 fraction bits
UnpackFloat32(value) ==
    IF Len(value) # 4 THEN Value("struct.error", 0)
    ELSE Value("float32", [sign |-> value[4] \div 128,
                           exp  |-> (value[4] % 128) * 2 + value[3] \div 128,
                           frac |-> <<(value[3] % 128) * 65536 + value[2] * 256 + value[1]>>])

\* struct.unpack("<d", value)[0]: sign, 11 exponent bits, 52 fraction
\* bits (kept as the upper 20 bits and two halves of the lower 32)
UnpackFloat64(value) ==
    IF Len(value) # 8 THEN Value("struct.error", 0)
    ELSE Value("float64", [sign |-> value[8] \div 128,
                           exp  |-> (value[8] % 128) * 16 + value[7] \div 16,
                           frac |-> <<(value[7] % 16) * 65536 + value[6] * 256 + value[5],
                                      value[4] * 256 + value[3],
                                      value[2] * 256 + value[1]>>])

\* bytes.decode("utf-8", errors="ignore") on the bytes of the model:
\* ASCII bytes are their own code points, a byte of 0x80 and above that
\* starts no valid sequence is dropped
DecodeUtf8Ignore(bytes) == SelectSeq(bytes, LAMBDA b : b < 128)

\* str.isspace() on the ASCII range
IsSpace(c) == c \in {9, 10, 11, 12, 13, 28, 29, 30, 31, 32}

\* str.strip()
RECURSIVE LStrip(_)
LStrip(str) ==
    IF Len(str) > 0 /\ IsSpace(Head(str)) THEN LStrip(Tail(str)) ELSE str

RECURSIVE RStrip(_)
RStrip(str) ==
    IF Len(str) > 0 /\ IsSpace(str[Len(str)]) THEN RStrip(SubSeq(str, 1, Len(str) - 1)) ELSE str

Strip(str) == RStrip(LStrip(str))

\* str.replace("\x00", "")
RemoveNul(str) == SelectSeq(str, LAMBDA c : c # 0)

\* value[4:].decode("utf-8", errors="ignore").strip().replace("\x00", "")
DecodeString(value) ==
    Value("str", RemoveNul(Strip(DecodeUtf8Ignore(PySliceFrom(value, 4)))))

\* the body of the try block
ParseValueTry(data_type, value) ==
    IF data_type = INT32 THEN UnpackInt32(value)
    ELSE IF data_type = FLOAT32 THEN UnpackFloat32(value)
    ELSE IF data_type = FLOAT64 THEN UnpackFloat64(value)
    ELSE IF data_type = STRING_ THEN DecodeString(value)
    ELSE Value("bytes", value)

\* except Exception: return None
ParseValue(data_type, value) ==
    LET r == ParseValueTry(data_type, value)
    IN IF r.ty = "struct.error" THEN None ELSE r

\* byte i (0-based, least significant first) of the two's complement
\* form of an integer
ByteOf(n, i) ==
    (IF i = 0 THEN n ELSE IF i = 1 THEN n \div 256
     ELSE IF i = 2 THEN n \div 65536 ELSE n \div 16777216) % 256

\* struct.pack("<d", x): the eight bytes of a binary64 bit pattern
PackFloat64(f) ==
    <<f.frac[3] % 256, f.frac[3] \div 256, f.frac[2] % 256, f.frac[2] \div 256,
      f.frac[1] % 256, (f.frac[1] \div 256) % 256,
      (f.exp % 16) * 16 + f.frac[1] \div 65536, f.sign * 128 + f.exp \div 16>>

\* struct.pack("<f", x): the four bytes of a binary32 bit pattern
PackFloat32(f) ==
    <<f.frac[1] % 256, (f.frac[1] \div 256) % 256,
      (f.exp % 2) * 128 + f.frac[1] \div 65536, f.sign * 128 + f.exp \div 2>>

\* struct.pack("<i", n)
PackInt32(n) == [i \in 1..4 |-> ByteOf(n, i - 1)]

MaxValueLen == 5

MaxText == 3

\* 42, the extremes of a byte, and the sign bit alone
ValueBytes == {0, 42, 128, 255}

Words == {w \in SeqsUpTo(ValueBytes, 4) : Len(w) = 4}

\* values of every length up to MaxValueLen, and eight-byte values
ScalarBytes ==
    SeqsUpTo(ValueBytes, MaxValueLen) \cup {a \o b : a \in {Zeros(4), <<42, 0, 0, 128>>}, b \in Words}

\* NUL, space, "A" and a byte that is not UTF-8
TextBytes == {0, 32, 65, 255}

\* a four-byte length followed by text
StringBytes == {Zeros(4) \o t : t \in SeqsUpTo(TextBytes, MaxText)}

\* the four tags of parse_value, a one-byte tag it does not know, and a
\* two-byte tag
ValueTags == {INT32, FLOAT32, FLOAT64, STRING_, <<8>>, <<3, 3>>}

ValueInit ==
    /\ handlers = DefaultHandlers
    /\ op = "idle"
    /\ \/ \E dt \in ValueTags, v \in ScalarBytes : arg = <<dt, v>>
       \/ \E v \in StringBytes : arg = <<STRING_, v>>
    /\ res = <<>>
    /\ SplitIdle
    /\ StreamIdle
    /\ MetaIdle
    /\ ObjIdle

CallParseValue ==
    /\ op = "idle"
    /\ op' = "parse_value"
    /\ res' = ParseValue(arg[1], arg[2])
    /\ UNCHANGED <<handlers, arg, splitVars, streamVars, metaVars, objVars>>

ValueNext == CallParseValue

SpecValue == ValueInit /\ [][ValueNext]_vars

\* C17: parse_value returns for every (tag, bytes) pair (no outcome is
\* an exception): for Int32, Float32 and Float64 a value that is not 4, 4
\* and 8 bytes long gives None, a value of that length gives the number
\* whose little-endian encoding the bytes are (the Int32 bytes of 42 give
\* 42), and a tag that is none of the four returns the bytes unchanged.
C17_ParseValueTotal ==
    op = "parse_value" =>
        LET data_type == arg[1]
            value == arg[2]
        IN /\ res.ty \in {"none", "int", "float32", "float64", "str", "bytes"}
           /\ data_type = INT32 =>
                  IF Len(value) # 4 THEN res = None
                  ELSE /\ res.ty = "int"
                       /\ res.v \in -2147483647 - 1 .. 2147483647
                       /\ \A i \in 0..3 : ByteOf(res.v, i) = value[i + 1]
                       /\ value = <<42, 0, 0, 0>> => res.v = 42
           /\ data_type = FLOAT32 =>
                  IF Len(value) # 4 THEN res = None
                  ELSE res.ty = "float32" /\ PackFloat32(res.v) = value
           /\ data_type = FLOAT64 =>
                  IF Len(value) # 8 THEN res = None
                  ELSE res.ty = "float64" /\ PackFloat64(res.v) = value
           /\ data_type \notin {INT32, FLOAT32, FLOAT64, STRING_} =>
                  res.ty = "bytes" /\ res.v = value

\* the Int32 bytes of 42 were decoded to 42
C17_Witness ==
    /\ op = "parse_value"
    /\ arg = <<INT32, <<42, 0, 0, 0>>>>
    /\ res.ty = "int"
    /\ res.v = 42

\* C18: for the String tag the returned string has no leading or
\* trailing whitespace and no trailing NUL; a remainder of text, a space
\* and a NUL decodes to the text alone.
C18_StringTrimmed ==
    (op = "parse_value" /\ arg[1] = STRING_) =>
        /\ res.ty = "str"
        /\ Len(res.v) > 0 => /\ ~IsSpace(res.v[1])
                             /\ ~IsSpace(res.v[Len(res.v)])
                             /\ res.v[Len(res.v)] # 0
        /\ arg[2] = Zeros(4) \o <<65, 32, 0>> => res.v = <<65>>


-----------------------------------------------------------------------------
(* MetadataExtractor.extract_field on the bytes of a table.  A marker of   *)
(* BinaryMarkers or of metadata_patterns is one symbol of the table,       *)
(* outside the range of a byte: the model leaves out a marker that starts  *)
(* or ends inside a value or inside the unrelated bytes.                   *)

category == 256
field_bytes == 257
TYPE_PREFIX == 258
TYPE_SEPARATOR == 259
END_FIELD == 260

\* rb".*?": a gap or a group may be empty
MinStar == Len(<<>>)

\* rb".+?": a gap or a group holds at least one byte
MinPlus == 1

SetMin(S) == CHOOSE x \in S : \A y \in S : x <= y

\* The pattern is matched by backtracking: the leftmost start, and from
\* there each lazy `.+?` as short as the rest of the pattern allows.
\* Positions are 1-based; each set holds the positions where the next
\* literal can stand so that the rest of the pattern still matches.

\* (.+?) END_FIELD with the value group starting at i
EndFieldAfter(s, i) ==
    {e \in (i + MinPlus)..Len(s) : s[e] = END_FIELD}

\* (.+?) TYPE_SEPARATOR ..., the tag group starting at i
SeparatorAfter(s, i) ==
    {d \in (i + MinPlus)..Len(s) : s[d] = TYPE_SEPARATOR /\ EndFieldAfter(s, d + 1) # {}}

\* .+? TYPE_PREFIX ..., the gap starting at i
PrefixAfter(s, i) ==
    {c \in (i + MinPlus)..Len(s) : s[c] = TYPE_PREFIX /\ SeparatorAfter(s, c + 1) # {}}

\* .+? field_bytes ..., the gap starting at i
FieldAfter(s, i) ==
    {b \in (i + MinPlus)..Len(s) : s[b] = field_bytes /\ PrefixAfter(s, b + 1) # {}}

\* category ...
CategoryAt(s) ==
    {a \in 1..Len(s) : s[a] = category /\ FieldAfter(s, a + 1) # {}}

\* pattern.findall(table), matches[0]: the two groups of the first match,
\* <<>> when nothing matches
FirstMatch(s) ==
    IF CategoryAt(s) = {} THEN <<>>
    ELSE LET a == SetMin(CategoryAt(s))
             b == SetMin(FieldAfter(s, a + 1))
             c == SetMin(PrefixAfter(s, b + 1))
             d == SetMin(SeparatorAfter(s, c + 1))
             e == SetMin(EndFieldAfter(s, d + 1))
         IN <<SubSeq(s, c + 1, d - 1), SubSeq(s, d + 1, e - 1)>>

HasMarker(s) == \E i \in 1..Len(s) : s[i] > 255

\* parse_value on two captured groups.  A tag group that holds a marker
\* is none of the four tags; the byte length of a value group that holds
\* a marker is not fixed by the model, and the result is left open.
ParseCaptured(data_type, value) ==
    IF HasMarker(data_type) THEN Value("bytes", value)
    ELSE IF HasMarker(value) /\ data_type \in {INT32, FLOAT32, FLOAT64, STRING_}
         THEN Value("open", 0)
    ELSE ParseValue(data_type, value)

\* extract_field(table, field_name) for a known field_name
ExtractFieldBytes(table) ==
    LET matches == FirstMatch(table)
    IN IF matches = <<>> THEN None ELSE ParseCaptured(matches[1], matches[2])

\* the tag and the value bytes of a scalar
TagOf(x) ==
    IF x.ty = "int" THEN INT32 ELSE IF x.ty = "float32" THEN FLOAT32 ELSE FLOAT64

Pack(x) ==
    IF x.ty = "int" THEN PackInt32(x.v)
    ELSE IF x.ty = "float32" THEN PackFloat32(x.v) ELSE PackFloat64(x.v)

\* category + gap + field + gap + TYPE_PREFIX + tag + TYPE_SEPARATOR +
\* value + END_FIELD
FieldTable(x, gap1, gap2) ==
    <<category>> \o gap1 \o <<field_bytes>> \o gap2
    \o <<TYPE_PREFIX>> \o TagOf(x) \o <<TYPE_SEPARATOR>> \o Pack(x) \o <<END_FIELD>>

MaxGap == 2

\* 42, -1, the largest Int32; 1.5 and -0.0 as binary32; 1.0 and 15.6 as
\* binary64
Scalars ==
    {Value("int", 42), Value("int", -1), Value("int", 2147483647),
     Value("float32", [sign |-> 0, exp |-> 127, frac |-> <<4194304>>]),
     Value("float32", [sign |-> 1, exp |-> 0, frac |-> <<0>>]),
     Value("float64", [sign |-> 0, exp |-> 1023, frac |-> <<0, 0, 0>>]),
     Value("float64", [sign |-> 0, exp |-> 1026, frac |-> <<996147, 13107, 13107>>])}

\* a plain byte and the markers that may stand between the markers
GapSymbols == {170, field_bytes, TYPE_PREFIX, TYPE_SEPARATOR}

Gaps == SeqsUpTo(GapSymbols, MaxGap)

FieldInit ==
    /\ handlers = DefaultHandlers
    /\ op = "idle"
    /\ \E x \in Scalars, gap1 \in Gaps, gap2 \in Gaps : arg = <<x, gap1, gap2>>
    /\ res = <<>>
    /\ SplitIdle
    /\ StreamIdle
    /\ MetaIdle
    /\ ObjIdle

CallExtractField ==
    /\ op = "idle"
    /\ op' = "extract_field"
    /\ res' = ExtractFieldBytes(FieldTable(arg[1], arg[2], arg[3]))
    /\ UNCHANGED <<handlers, arg, splitVars, streamVars, metaVars, objVars>>

FieldNext == CallExtractField

SpecField == FieldInit /\ [][FieldNext]_vars

PlainOnly(gap) == \A i \in 1..Len(gap) : gap[i] < 256

RoundTrips == res.ty = arg[1].ty /\ res.v = arg[1].v

-----------------------------------------------------------------------------
(* validation/base.py: a ValidationResult and the calls of its add_*       *)
(* methods, in any order.                                                  *)

MaxCalls == 4

Messages == {"m1", "m2"}

\* ValidationResult.__init__
NewResult ==
    [errors |-> <<>>, warnings |-> <<>>, info |-> <<>>, passed_checks |-> <<>>]

NoCalls == [add_error |-> 0, add_warning |-> 0, add_info |-> 0, add_pass |-> 0]

\* ValidationResult.is_valid
IsValid(r) == Len(r.errors) = 0

\* ValidationResult.has_warnings
HasWarnings(r) == Len(r.warnings) > 0

\* a summary that counts every message as an issue
SummaryCountingInfo(r) ==
    [is_valid |-> IsValid(r),
     has_warnings |-> HasWarnings(r),
     error_count |-> Len(r.errors),
     warning_count |-> Len(r.warnings),
     checks_passed |-> Len(r.passed_checks),
     total_issues |-> Len(r.errors) + Len(r.warnings) + Len(r.info)]

\* ValidationResult.summary
Summary(r) ==
    [is_valid |-> IsValid(r),
     has_warnings |-> HasWarnings(r),
     error_count |-> Len(r.errors),
     warning_count |-> Len(r.warnings),
     checks_passed |-> Len(r.passed_checks),
     total_issues |-> Len(r.errors) + Len(r.warnings)]

TotalCalls == calls.add_error + calls.add_warning + calls.add_info + calls.add_pass

ResultInit ==
    /\ vr = NewResult
    /\ calls = NoCalls
    /\ config = <<>>
    /\ compiled = {}
    /\ SplitIdle
    /\ StreamIdle
    /\ MetaIdle
    /\ BinIdle

AddError(message) ==
    /\ TotalCalls < MaxCalls
    /\ vr' = [vr EXCEPT !.errors = Append(@, message)]
    /\ calls' = [calls EXCEPT !.add_error = @ + 1]
    /\ UNCHANGED <<config, compiled, splitVars, streamVars, metaVars, binVars>>

AddWarning(message) ==
    /\ TotalCalls < MaxCalls
    /\ vr' = [vr EXCEPT !.warnings = Append(@, message)]
    /\ calls' = [calls EXCEPT !.add_warning = @ + 1]
    /\ UNCHANGED <<config, compiled, splitVars, streamVars, metaVars, binVars>>

AddInfo(message) ==
    /\ TotalCalls < MaxCalls
    /\ vr' = [vr EXCEPT !.info = Append(@, message)]
    /\ calls' = [calls EXCEPT !.add_info = @ + 1]
    /\ UNCHANGED <<config, compiled, splitVars, streamVars, metaVars, binVars>>

AddPass(check_name) ==
    /\ TotalCalls < MaxCalls
    /\ vr' = [vr EXCEPT !.passed_checks = Append(@, check_name)]
    /\ calls' = [calls EXCEPT !.add_pass = @ + 1]
    /\ UNCHANGED <<config, compiled, splitVars, streamVars, metaVars, binVars>>

ResultNext ==
    \/ \E m \in Messages : AddError(m)
    \/ \E m \in Messages : AddWarning(m)
    \/ \E m \in Messages : AddInfo(m)
    \/ \E m \in Messages : AddPass(m)

SpecResult == ResultInit /\ [][ResultNext]_vars

\* C24: after any sequence of add_error, add_warning, add_info and
\* add_pass calls, summary() reports error_count = number of add_error
\* calls, warning_count = number of add_warning calls and total_issues =
\* their sum; is_valid is true exactly when add_error was never called,
\* and once false it never becomes true again.
C24_SummaryCounts ==
    /\ [](/\ Summary(vr).error_count = calls.add_error
          /\ Summary(vr).warning_count = calls.add_warning
          /\ Summary(vr).total_issues = calls.add_error + calls.add_warning
          /\ Summary(vr).is_valid <=> calls.add_error = 0
          /\ IsValid(vr) <=> calls.add_error = 0)
    /\ [][~IsValid(vr) => ~IsValid(vr')]_vars

\* one call of each method: one error, one warning, two issues, not valid
C24_Witness ==
    /\ calls = [add_error |-> 1, add_warning |-> 1, add_info |-> 1, add_pass |-> 1]
    /\ Summary(vr).total_issues = 2
    /\ ~Summary(vr).is_valid


\* ---------------------------------------------------------------------
\* core/parser.py: NGBParserExtended, configuration added after
\* construction
\* ---------------------------------------------------------------------

HexIds == {"8d", "8e"}

ColumnNames == {"time", "custom_column"}

FieldNames == {"instrument", "custom_field"}

\* (category, field) marker pairs of a metadata pattern
MarkerPairs == {<<<<117, 23>>, <<89, 16>>>>, <<<<0, 3>>, <<64, 8>>>>}

SetItem(f, k, v) == [x \in DOMAIN f \cup {k} |-> IF x = k THEN v ELSE f[x]]

PatternConfig ==
    [column_map |-> [id \in {"8d"} |-> "time"],
     metadata_patterns |-> [f \in {"instrument"} |-> <<<<117, 23>>, <<89, 16>>>>]]

\* MetadataExtractor.__init__: one compiled pattern per entry that
\* config.metadata_patterns holds when the extractor is constructed
CompileMeta(cfg) ==
    {<<f, cfg.metadata_patterns[f]>> : f \in DOMAIN cfg.metadata_patterns}

CompiledFields == {c[1] : c \in compiled}

ColumnOf(cfg, id) ==
    IF id \in DOMAIN cfg.column_map THEN cfg.column_map[id] ELSE id

\* a container for this specification: the column identifiers of the
\* header tables of stream 2, and the marker pairs that are followed by a
\* decodable value in stream 1
Containers == [ids : SUBSET HexIds, present : SUBSET MarkerPairs]

ConfigInit ==
    /\ config = PatternConfig
    /\ compiled = CompileMeta(config)
    /\ op = "constructed"
    /\ arg = <<>>
    /\ res = <<>>
    /\ handlers = <<>>
    /\ vr = <<>>
    /\ calls = <<>>
    /\ SplitIdle
    /\ StreamIdle
    /\ MetaIdle

add_custom_column_mapping(hex_id, column_name) ==
    /\ op = "constructed"
    /\ config' = [config EXCEPT !.column_map = SetItem(@, hex_id, column_name)]
    /\ UNCHANGED <<compiled, vr, calls, binVars, splitVars, streamVars, metaVars>>

add_metadata_pattern(field_name, pair) ==
    /\ op = "constructed"
    /\ config' = [config EXCEPT !.metadata_patterns = SetItem(@, field_name, pair)]
    /\ UNCHANGED <<compiled, vr, calls, binVars, splitVars, streamVars, metaVars>>

\* parse: the columns are named through config.column_map as it is at the
\* call, the metadata fields are those of the compiled patterns
ParseWithConfig(c) ==
    /\ op = "constructed"
    /\ op' = "parse"
    /\ arg' = c
    /\ res' = [columns |-> {ColumnOf(config, id) : id \in c.ids},
               metadata |-> {k[1] : k \in {k \in compiled : k[2] \in c.present}}]
    /\ UNCHANGED <<handlers, splitVars, streamVars, metaVars, objVars>>

ExtractKnownField(field_name) ==
    /\ op = "constructed"
    /\ op' = "extract_field"
    /\ arg' = field_name
    /\ res' = IF field_name \notin CompiledFields
              THEN Raised("NGBParseError")
              ELSE Returned(0, field_name)
    /\ UNCHANGED <<handlers, splitVars, streamVars, metaVars, objVars>>

ConfigNext ==
    \/ \E id \in HexIds, n \in ColumnNames : add_custom_column_mapping(id, n)
    \/ \E f \in FieldNames, p \in MarkerPairs : add_metadata_pattern(f, p)
    \/ \E c \in Containers : ParseWithConfig(c)
    \/ \E f \in FieldNames : ExtractKnownField(f)

SpecConfig == ConfigInit /\ [][ConfigNext]_vars

ColumnMappingInEffect ==
    op = "parse" =>
        \A id \in arg.ids :
            id \in DOMAIN config.column_map => config.column_map[id] \in res.columns

MetadataPatternInEffect ==
    op = "parse" =>
        \A f \in DOMAIN config.metadata_patterns :
            config.metadata_patterns[f] \in arg.present => f \in res.metadata

ConfiguredFieldIsKnown ==
    op = "extract_field" =>
        (arg \in DOMAIN config.metadata_patterns => res.st = "ok")

\* C22 as stated: every mapping added to the configuration of a
\* constructed parser before parsing begins is in effect during the
\* following parse: a column with a mapped identifier carries the mapped
\* name, a metadata pattern of the configuration whose markers are in the
\* file is extracted into the metadata, and every field of the
\* configuration is a known field for extract_field.
C22_AddedMappingsInEffect ==
    /\ ColumnMappingInEffect
    /\ MetadataPatternInEffect
    /\ ConfiguredFieldIsKnown


\* ---------------------------------------------------------------------
\* core/parser.py: parse called again on the same NGBParser
\* ---------------------------------------------------------------------

\* NGBParser.__init__: config, binary_parser (with the registry of its
\* default handlers) and metadata_extractor (with the patterns compiled
\* from config)
Constructed ==
    /\ config = PatternConfig
    /\ compiled = CompileMeta(PatternConfig)
    /\ handlers = DefaultHandlers
    /\ vr = <<>>

\* the frame of one call of parse before its first statement that reads
\* the archive: metadata = {}, data_df = pl.DataFrame()
FreshCall ==
    /\ phase = "p1"
    /\ nproc = 0
    /\ output = <<>>
    /\ df = EmptyFrame
    /\ title = NoTitle
    /\ last = NoTable
    /\ ev = "none"
    /\ readLog = {}
    /\ metadata = "unset"
    /\ perr = "none"
    /\ presult = "none"
    /\ SplitIdle
    /\ MetaIdle
    /\ op = "off"
    /\ arg = <<>>
    /\ res = <<>>

\* calls is empty until parse is called a second time on the instance
ReparseInit ==
    /\ container \in SUBSET Entries
    /\ Constructed
    /\ FreshCall
    /\ calls = <<>>

KeptLocals == [metadata |-> metadata, data_df |-> df]

\* the locals that parse creates at lines 110 and 115
NewLocals == [metadata |-> "unset", data_df |-> EmptyFrame]

\* parse(Y) is called after parse(X) has returned or raised: the locals of
\* the earlier call are gone, the attributes of the instance are not
\* written
ParseAgain ==
    /\ phase \in {"done", "failed"}
    /\ calls = <<>>
    /\ calls' = <<"again">>
    /\ container' \in SUBSET Entries
    /\ phase' = "p1"
    /\ metadata' = NewLocals.metadata
    /\ df' = NewLocals.data_df
    /\ nproc' = 0
    /\ output' = <<>>
    /\ title' = NoTitle
    /\ last' = NoTable
    /\ ev' = "none"
    /\ readLog' = {}
    /\ perr' = "none"
    /\ presult' = "none"
    /\ UNCHANGED <<config, compiled, vr, binVars, splitVars, metaVars>>

ReparseNext == ParseNext \/ ParseAgain

SpecReparse == ReparseInit /\ [][ReparseNext]_vars

\* C25: no state is carried from one parse call to the next on the same
\* NGBParser: parse never writes an attribute of the instance, and the
\* state in which parse(Y) starts after parse(X) has returned or failed is
\* a state in which parse(Y) starts on a freshly constructed parser, for
\* every pair of containers, so both return the same metadata and table.
C25_NoStateCarried ==
    /\ [](Constructed)
    /\ [][calls' # calls => (Constructed' /\ FreshCall')]_vars

\* the second parse call of the instance has returned a table
C25_Witness ==
    /\ calls = <<"again">>
    /\ phase = "done"
    /\ df # EmptyFrame


\* ---------------------------------------------------------------------
\* pyngb extractors/metadata.py: the backward walk over the bytes before
\* the chosen crucible-mass occurrence (reference_mass, sample_mass).
\* The markers are the symbols of the extract_field section.
\* ---------------------------------------------------------------------

MaxSpans == 3      \* pieces a window is put together from

\* bytes.rfind(pat, start, end): the last position of pat with the whole
\* of it inside s[start:end], -1 when there is none
RFind(s, pat, start, end) ==
    LET ps == {q \in start..(Min(end, Len(s)) - Len(pat)) : MatchAt(s, pat, q)}
    IN IF ps = {} THEN -1 ELSE CHOOSE q \in ps : \A r \in ps : r <= q

\* bytes.find(pat, start, end)
FindIn(s, pat, start, end) ==
    LET ps == {q \in start..(Min(end, Len(s)) - Len(pat)) : MatchAt(s, pat, q)}
    IN IF ps = {} THEN -1 ELSE CHOOSE q \in ps : \A r \in ps : q <= r

\* isinstance(parsed, (int, float)) on a value of parse_value
IsNumber(x) == x.ty \in {"int", "float32", "float64"}

\* the value of the field that ends with the END_FIELD at end_idx: the
\* nearest TYPE_PREFIX before it, the byte after the prefix as the tag, the
\* first TYPE_SEPARATOR after the tag, and the bytes up to END_FIELD; None
\* when a part is missing
SpanValue(search_region, end_idx) ==
    LET type_prefix_idx == RFind(search_region, <<TYPE_PREFIX>>, 0, end_idx)
        data_type_idx == type_prefix_idx + Len(<<TYPE_PREFIX>>)
        data_type == PySlice(search_region, data_type_idx, data_type_idx + 1)
        sep_idx == FindIn(search_region, <<TYPE_SEPARATOR>>, data_type_idx + 1, end_idx)
        value_start == sep_idx + Len(<<TYPE_SEPARATOR>>)
        raw_value == PySlice(search_region, value_start, end_idx)
    IN IF type_prefix_idx = -1 THEN None
       ELSE IF data_type_idx >= end_idx THEN None
       ELSE IF sep_idx = -1 THEN None
       ELSE ParseValue(data_type, raw_value)

\* idx = end_idx
KeptIdx(idx, end_idx) == idx

Lowered(idx, end_idx) == end_idx

\* and "sample_mass" not in metadata
AlwaysRecord(md) == TRUE

MayRecord(md) == md.sample_mass = Absent

\* the pieces of a window: a numeric field, a string field, END_FIELD
\* alone, a field without separator, TYPE_PREFIX next to END_FIELD, a
\* field without END_FIELD (its value runs on into the next piece), a plain
\* byte
Pieces ==
    {<<TYPE_PREFIX>> \o INT32 \o <<TYPE_SEPARATOR>> \o PackInt32(42) \o <<END_FIELD>>,
     <<TYPE_PREFIX>> \o STRING_ \o <<TYPE_SEPARATOR>> \o <<1, 0, 0, 0, 65>> \o <<END_FIELD>>,
     <<END_FIELD>>,
     <<TYPE_PREFIX>> \o INT32 \o <<END_FIELD>>,
     <<TYPE_PREFIX, END_FIELD>>,
     <<TYPE_PREFIX>> \o INT32 \o <<TYPE_SEPARATOR>> \o PackInt32(-1),
     <<170>>}

RECURSIVE Windows(_)
Windows(n) ==
    IF n = 0 THEN {<<>>}
    ELSE LET shorter == Windows(n - 1)
         IN shorter \cup {w \o x : w \in shorter, x \in Pieces}

\* sample_mass after the scalar pass: absent, or the float it stored
ScalarPassSampleMass == {Absent, Value("float", 7)}

WalkKinds == {"reference", "sample"}

\* the structural pass has not reached a walk yet
WalkInit ==
    /\ op = "idle"
    /\ arg = <<>>
    /\ res = <<>>
    /\ handlers = <<>>
    /\ SplitIdle
    /\ StreamIdle
    /\ MetaIdle
    /\ ObjIdle

\* the walk is entered: idx = len(search_region), found = False;
\* reference_mass has no writer before the structural pass.  arg.parsed
\* holds, for each position, the value the loop body parses when its
\* END_FIELD is found there
EnterWalk(k, w, m) ==
    /\ op = "idle"
    /\ op' = "walk"
    /\ arg' = [kind |-> k, search_region |-> w, sample_mass |-> m,
               parsed |-> [e \in 0..Len(w) |-> SpanValue(w, e)]]
    /\ res' = [idx |-> Len(w), found |-> FALSE, at |-> -1, stores |-> 0,
               md |-> [sample_mass |-> m, reference_mass |-> Absent]]
    /\ UNCHANGED <<handlers, splitVars, streamVars, metaVars, objVars>>

\* the end of the loop body, from the END_FIELD found and the value parsed
WalkBody(kind, st, end_idx, parsed) ==
    IF kind = "reference" /\ IsNumber(parsed)
    THEN [st EXCEPT !.idx = Lowered(st.idx, end_idx),
                    !.found = TRUE,
                    !.at = end_idx,
                    !.stores = IF st.md.reference_mass = Absent THEN @ + 1 ELSE @,
                    !.md = SetDefault(@, "reference_mass", ToFloat(parsed))]
    ELSE IF kind = "sample" /\ IsNumber(parsed) /\ MayRecord(st.md)
    THEN [st EXCEPT !.idx = Lowered(st.idx, end_idx),
                    !.found = TRUE,
                    !.at = end_idx,
                    !.md = Put(@, "sample_mass", ToFloat(parsed))]
    ELSE [st EXCEPT !.idx = Lowered(st.idx, end_idx)]

\* one pass through the body of the while loop that does not break
WalkIteration ==
    /\ op = "walk"
    /\ ~res.found
    /\ \E end_idx \in {RFind(arg.search_region, <<END_FIELD>>, 0, res.idx)} :
          /\ end_idx # -1
          /\ res' = WalkBody(arg.kind, res, end_idx, arg.parsed[end_idx])
    /\ UNCHANGED <<handlers, op, arg, splitVars, streamVars, metaVars, objVars>>

\* the loop is left: the value was found, or rfind(END_FIELD) gave -1
WalkExit ==
    /\ op = "walk"
    /\ \/ res.found
       \/ RFind(arg.search_region, <<END_FIELD>>, 0, res.idx) = -1
    /\ op' = "ended"
    /\ UNCHANGED <<handlers, arg, res, splitVars, streamVars, metaVars, objVars>>

WalkLoop == WalkIteration \/ WalkExit

WalkNext ==
    \/ /\ op = "idle"
       /\ \E k \in WalkKinds, w \in Windows(MaxSpans), m \in ScalarPassSampleMass :
              EnterWalk(k, w, m)
    \/ WalkLoop

SpecWalk == WalkInit /\ [][WalkNext]_vars

\* the interpreter keeps running a loop it has entered
SpecWalkFair == SpecWalk /\ WF_vars(WalkLoop)

\* the END_FIELD positions of the window whose field is numeric
NumericSpans(w) ==
    {e \in 0..(Len(w) - 1) : MatchAt(w, <<END_FIELD>>, e) /\ IsNumber(SpanValue(w, e))}

\* C29: the backward walk always terminates: every iteration strictly
\* lowers the search position, which stays at or above 0, and the walk
\* ends either with the value of the last numeric TYPE_PREFIX...END_FIELD
\* span of the window (the first one met scanning backward) or with no
\* END_FIELD left before the position, for every window and also when
\* sample_mass is already set.
C29_WalkTerminates ==
    /\ (op = "walk") ~> (op = "ended")
    /\ [](op = "walk" => res.idx >= 0)
    /\ [][op = "walk" /\ op' = "walk" => res'.idx < res.idx]_vars
    /\ [](op = "ended" =>
            \/ /\ res.found
               /\ res.at \in NumericSpans(arg.search_region)
               /\ \A e \in NumericSpans(arg.search_region) : e <= res.at
            \/ /\ ~res.found
               /\ RFind(arg.search_region, <<END_FIELD>>, 0, res.idx) = -1)

\* a walk with sample_mass already set has passed a numeric span and has
\* ended with no END_FIELD left
C29_Witness ==
    /\ op = "ended"
    /\ arg.kind = "sample"
    /\ arg.sample_mass # Absent
    /\ NumericSpans(arg.search_region) # {}
    /\ ~res.found
    /\ res.idx < Len(arg.search_region)

MaxStagePieces == 3      \* pieces a joined stream is put together from

\* the keys of _compiled_temp_prog, in the order of the dict
StageFields == <<"temperature", "heating_rate">>

StageFieldSet == {StageFields[n] : n \in 1..Len(StageFields)}

\* TEMP_PROG_TYPE_PREFIX + field code + temp_prog_type_separator
StageHead(f) == IF f = "temperature" THEN 261 ELSE 262

\* temp_prog_field_separator + temp_prog_value_prefix
StageMid == 263

\* the data tag of the temperature program, b"\x0c"
TEMP_TAG == <<12>>

StageMatchLen == Len(<<StageMid>>) + 6

\* the pattern of field f matches at 0-based position p: the head, any
\* one byte, the middle, any four bytes
StageMatchAt(table, f, p) ==
    /\ p + StageMatchLen <= Len(table)
    /\ table[p + 1] = StageHead(f)
    /\ table[p + 3] = StageMid

\* pattern.findall(table): the (data_type, value_bytes) groups of the
\* matches from left to right, none overlapping the one before
RECURSIVE FindAllStage(_, _, _)
FindAllStage(table, f, from) ==
    IF from + StageMatchLen > Len(table) THEN <<>>
    ELSE IF StageMatchAt(table, f, from)
         THEN <<[data_type |-> <<table[from + 2]>>,
                 value_bytes |-> SubSeq(table, from + 4, from + 7)]>>
              \o FindAllStage(table, f, from + StageMatchLen)
         ELSE FindAllStage(table, f, from + 1)

\* struct.unpack("<f") for the tag 0x0c, parse_value otherwise
DecodeStage(g) ==
    IF g.data_type = TEMP_TAG /\ Len(g.value_bytes) = 4
    THEN UnpackFloat32(g.value_bytes)
    ELSE ParseValue(g.data_type, g.value_bytes)

\* len of the matches of the first field only
FirstLen(field_matches) == Len(field_matches[StageFields[1]])

\* max(len(v) for v in field_matches.values()); no stage when no field
\* has a match
max_len(field_matches) ==
    LET lens == {Len(field_matches[f]) : f \in StageFieldSet}
    IN CHOOSE n \in lens : \A k \in lens : k <= n

\* temperature_program after the call: stage_i is element i + 1
ExtractTemperatureProgram(table) ==
    LET field_matches == [f \in StageFieldSet |-> FindAllStage(table, f, 0)]
    IN [i \in 1..max_len(field_matches) |->
          [f \in StageFieldSet |->
              IF i <= Len(field_matches[f])
              THEN LET value == DecodeStage(field_matches[f][i])
                   IN IF value # None THEN value ELSE Absent
              ELSE Absent]]

\* a match of a field with the tag 0x0c (1.5 and -0.0), Int32, Float64 and
\* string tags; a match cut short; a plain byte
StagePieces ==
    {<<StageHead(f)>> \o t \o <<StageMid>> \o v :
        f \in StageFieldSet,
        t \in {TEMP_TAG},
        v \in {<<0, 0, 192, 63>>, <<0, 0, 0, 128>>}}
    \cup {<<StageHead(f)>> \o t \o <<StageMid>> \o <<42, 0, 0, 0>> :
        f \in StageFieldSet, t \in {INT32, FLOAT64, STRING_}}
    \cup {<<StageHead("temperature")>> \o TEMP_TAG \o <<StageMid, 0, 0>>, <<170>>}

RECURSIVE StageTables(_)
StageTables(n) ==
    IF n = 0 THEN {<<>>}
    ELSE LET shorter == StageTables(n - 1)
         IN shorter \cup {w \o x : w \in shorter, x \in StagePieces}

TempProgInit ==
    /\ op = "idle"
    /\ arg \in StageTables(MaxStagePieces)
    /\ res = <<>>
    /\ handlers = <<>>
    /\ SplitIdle
    /\ StreamIdle
    /\ MetaIdle
    /\ ObjIdle

CallExtractTemperatureProgram ==
    /\ op = "idle"
    /\ op' = "temperature_program"
    /\ res' = ExtractTemperatureProgram(arg)
    /\ UNCHANGED <<handlers, arg, splitVars, streamVars, metaVars, objVars>>

TempProgNext == CallExtractTemperatureProgram

SpecTempProg == TempProgInit /\ [][TempProgNext]_vars

\* the matches of field f in the joined bytes
StageMatches(f) == FindAllStage(arg, f, 0)

\* the largest match count over the configured stage fields
LargestCount ==
    CHOOSE n \in 0..Len(arg) :
        /\ \A f \in StageFieldSet : Len(StageMatches(f)) <= n
        /\ \E f \in StageFieldSet : Len(StageMatches(f)) = n

\* the value of the i-th match: a little-endian binary32 for the tag
\* 0x0c, the general decoder otherwise
StageValue(f, i) ==
    LET g == StageMatches(f)[i]
    IN IF g.data_type = TEMP_TAG THEN UnpackFloat32(g.value_bytes)
       ELSE ParseValue(g.data_type, g.value_bytes)

\* C21 as stated: the number of stages equals the largest match count
\* over all configured stage fields, and stage_i holds field f exactly
\* when f has more than i matches in the joined bytes, with the value
\* decoded from the i-th match of f in byte order.
C21_StagesByOrdinal ==
    op = "temperature_program" =>
        /\ Len(res) = LargestCount
        /\ \A i \in 1..Len(res), f \in StageFieldSet :
              /\ res[i][f] # Absent <=> i <= Len(StageMatches(f))
              /\ res[i][f] # Absent => res[i][f] = StageValue(f, i)

\* C21, amended: the number of stages equals the largest match count, and
\* stage_i holds field f exactly when f has more than i matches and the
\* i-th match of f decodes to a value (parse_value gives None for a
\* Float64 tag, whose value is four bytes long); the value is the one
\* decoded from that match.
C21_StagesByOrdinalDecoded ==
    op = "temperature_program" =>
        /\ Len(res) = LargestCount
        /\ \A i \in 1..Len(res), f \in StageFieldSet :
              /\ res[i][f] # Absent
                    <=> (i <= Len(StageMatches(f)) /\ StageValue(f, i) # None)
              /\ res[i][f] # Absent => res[i][f] = StageValue(f, i)

\* two stages, the second one without heating_rate, and two different
\* temperatures in byte order
C21_Witness ==
    /\ op = "temperature_program"
    /\ Len(res) = 2
    /\ res[1]["heating_rate"] # Absent
    /\ res[2]["heating_rate"] = Absent
    /\ res[1]["temperature"] # Absent
    /\ res[2]["temperature"] # Absent
    /\ res[1]["temperature"] # res[2]["temperature"]

====
